---- MODULE Spec2Model ----
(***************************************************************************)
(* Model of gong-notes-automation: the Google-Docs text splice of          *)
(* src/activities.py (read_google_doc and append_to_google_doc), its       *)
(* document lookups and output parsing (find_google_doc,                   *)
(* llm_find_google_doc, structure_with_claude), the orchestration of       *)
(* src/workflow.py (ProcessCallNotesWorkflow), the client of               *)
(* src/trigger.py and the registrations of src/worker.py.                  *)
(*                                                                         *)
(* A document is the sequence of its index cells: cell i of the sequence   *)
(* is what the Docs API addresses with index i (index 0, the section       *)
(* break, is not stored).  A cell is one character of text, a paragraph    *)
(* terminator, one date chip or one index of a table.  Strings are         *)
(* sequences of one-character strings; the two sentinels and the           *)
(* "Attendees:" literal are abbreviated to short sequences that keep       *)
(* their shape (the sentinels share their first and last character, as     *)
(* "=== ACCOUNT SNAPSHOT ===" and "=== END SNAPSHOT ===" share "===").     *)
(*                                                                         *)
(* Specifications: Spec (one invocation of the write on any document),     *)
(* SpecRepeat (successive invocations on one document), SpecRace (two      *)
(* invocations on one document, interleaved), SpecWorkflow (one run of     *)
(* the workflow, with its signals and the retries of its activities),      *)
(* SpecTrigger (the trigger client and the run it starts), SpecActivities  *)
(* (one invocation of a lookup or of the output parsing, on any input) and *)
(* SpecPayload (successive writes of the snapshots the parsing returns).   *)
(***************************************************************************)
EXTENDS Integers, Sequences, FiniteSets, TLC

VARIABLES
    doc,              \* the document held by the Docs service (index cells)
    pc,               \* position of the append_to_google_doc invocation
    call_date,        \* argument call_date
    snapshot,         \* argument snapshot
    call_notes,       \* argument call_notes
    tz,               \* UTC offset (hours) of the executing process
    semantics,        \* how the Docs service resolves the indexes of a batch
    doc_read,         \* the document as returned by documents().get
    full_text,        \* local full_text
    insert_index,     \* local insert_index (0 is None)
    requests_body,    \* local requests_body
    err,              \* exception that ended the invocation, or "none"
    existing_snapshot,\* last value returned by read_google_doc, or NotRead
    doc_seen,         \* the document that value was extracted from
    history,          \* the invocations that returned before the current one
    other,            \* a second, concurrent invocation of append_to_google_doc
    wf_pc,            \* position of ProcessCallNotesWorkflow.run
    doc_url,          \* self.doc_url
    block_confirmed,  \* self.block_confirmed
    transcript,       \* local transcript of run (its call_date), or NoTranscript
    found_url,        \* local found_url of run
    attempt,          \* attempts made so far of the activity run is awaiting
    executed,         \* the activity attempts of the run, in order
    delivered,        \* the URLs delivered by provide_doc_url, in order
    trigger_pc,       \* position of main of trigger.py, the client of the run
    sent,             \* the URLs main of trigger.py sent with provide_doc_url
    call,             \* the inputs of an invocation of one of the other activities
    returned          \* what that invocation returned or raised, or NotReturned

\* the state of one invocation of the write and of the document service
appendVars == <<doc, pc, call_date, snapshot, call_notes, tz, semantics, doc_read,
                full_text, insert_index, requests_body, err, existing_snapshot,
                doc_seen>>

\* the state of the workflow run
workflowVars == <<wf_pc, doc_url, block_confirmed, transcript, found_url, attempt,
                  executed, delivered>>

\* the state of the trigger client
clientVars == <<trigger_pc, sent>>

\* the state of an invocation of find_google_doc, llm_find_google_doc or
\* structure_with_claude
activityVars == <<call, returned>>

vars == <<doc, pc, call_date, snapshot, call_notes, tz, semantics, doc_read,
          full_text, insert_index, requests_body, err, existing_snapshot,
          doc_seen, history, other, wf_pc, doc_url, block_confirmed, transcript,
          found_url, attempt, executed, delivered, trigger_pc, sent, call,
          returned>>

(***************************************************************************)
(* Bounds of the model.                                                    *)
(***************************************************************************)
MaxBlocks == 3          \* blocks of a document in Spec
MaxBlocksRepeat == 2    \* blocks of the first document in SpecRepeat
MaxWrites == 2          \* successive invocations in SpecRepeat
MaxSignals == 2         \* provide_doc_url signals sent to one run
MaxBlocksRace == 2      \* blocks of the document in SpecRace
MaxPieces == 4          \* pieces of a model output of structure_with_claude
MaxDocs == 2            \* documents in the listing of a Drive folder

(***************************************************************************)
(* Characters and literals.                                                *)
(***************************************************************************)
NL  == "\n"       \* terminator of a NORMAL_TEXT paragraph
NLH == "\nH"      \* terminator of a HEADING_2 paragraph
TBL == "#"        \* one index of a table

SNAPSHOT_MARKER_START == <<"=", "S", "=">>
SNAPSHOT_MARKER_END   == <<"=", "E", "=">>
ATTENDEES       == <<"A", ":">>
ATTENDEES_LOWER == <<"a", ":">>

IsNewline(c) == c \in {NL, NLH}
IsDateCell(c) == c \in {"@D1", "@D2", "@", "@bad"}
IsTextCell(c) == ~IsDateCell(c) /\ c # TBL

Min(a, b) == IF a < b THEN a ELSE b
Max(a, b) == IF a > b THEN a ELSE b

(***************************************************************************)
(* Python string operations, on sequences of characters.                   *)
(***************************************************************************)
OccursAt(text, pat, off) ==
    /\ off + Len(pat) <= Len(text)
    /\ \A k \in 1..Len(pat) : text[off + k] = pat[k]

RECURSIVE FindFrom(_, _, _)
FindFrom(text, pat, off) ==
    IF off + Len(pat) > Len(text) THEN -1
    ELSE IF OccursAt(text, pat, off) THEN off
    ELSE FindFrom(text, pat, off + 1)

\* str.find: 0-based offset of the first occurrence, -1 when there is none
Find(text, pat) == FindFrom(text, pat, 0)

\* the "in" operator on strings
Contains(text, pat) == Find(text, pat) # -1

\* text[a:b] for a, b >= 0
Slice(text, a, b) == SubSeq(text, a + 1, Min(b, Len(text)))

LowerChar(c) == IF c = "A" THEN "a" ELSE IF c = "S" THEN "s"
                ELSE IF c = "E" THEN "e" ELSE c

\* str.lower
Lower(text) == [k \in 1..Len(text) |-> LowerChar(text[k])]

\* str.strip: the string without its leading and trailing whitespace
IsSpace(c) == c \in {" ", "\n"}

RECURSIVE LStrip(_)
LStrip(s) == IF s # <<>> /\ IsSpace(Head(s)) THEN LStrip(Tail(s)) ELSE s

RECURSIVE RStrip(_)
RStrip(s) ==
    IF s # <<>> /\ IsSpace(s[Len(s)]) THEN RStrip(SubSeq(s, 1, Len(s) - 1)) ELSE s

Strip(s) == RStrip(LStrip(s))

(***************************************************************************)
(* Timestamps.  A timestamp string is a record: kind "epoch" (all digits,  *)
(* t hours since the epoch), kind "iso" (wall-clock t hours since the      *)
(* epoch day 0 at UTC offset off; a trailing Z is offset 0), kind "empty"  *)
(* (the empty string) or kind "bad" (any other string).                    *)
(***************************************************************************)
Epoch(t)    == [kind |-> "epoch", t |-> t, off |-> 0]
Iso(t, off) == [kind |-> "iso", t |-> t, off |-> off]
EmptyStr    == [kind |-> "empty", t |-> 0, off |-> 0]
BadStr      == [kind |-> "bad", t |-> 0, off |-> 0]

ParseError == -1

\* str.isdigit
IsDigit(s) == s.kind = "epoch"

\* datetime.fromtimestamp(int(s)): naive wall clock of the process
FromTimestamp(s, offset) == s.t + offset

\* datetime.fromisoformat(s.replace("Z", "+00:00")): wall clock at the
\* string's own offset, ParseError when the string is not ISO-8601
FromIsoFormat(s) == IF s.kind = "iso" THEN s.t ELSE ParseError

\* strftime("%Y-%m-%d"): the calendar day of a wall clock
Strftime(wall) == wall \div 24

\* CallDateStr with a string that does not parse read as the epoch
CallDateStrOrEpoch(cd, offset) ==
    IF IsDigit(cd) THEN Strftime(FromTimestamp(cd, offset))
    ELSE IF FromIsoFormat(cd) = ParseError THEN Strftime(offset)
    ELSE Strftime(FromIsoFormat(cd))

\* call_date_str of append_to_google_doc, ParseError on the except branch
CallDateStr(cd, offset) ==
    IF IsDigit(cd) THEN Strftime(FromTimestamp(cd, offset))
    ELSE IF FromIsoFormat(cd) = ParseError THEN ParseError
    ELSE Strftime(FromIsoFormat(cd))

\* the timestamp carried by a date chip
ChipTimestamp(c) ==
    IF c = "@D1" THEN Iso(1 * 24 + 12, 0)
    ELSE IF c = "@D2" THEN Iso(2 * 24 + 12, 0)
    ELSE IF c = "@bad" THEN BadStr
    ELSE EmptyStr

(***************************************************************************)
(* documents().get: the structural elements of the body, with the          *)
(* startIndex and endIndex the service reports for each.                   *)
(***************************************************************************)
RECURSIVE RunEnd(_, _, _)
\* last index of the run of text cells that starts at i (j is the
\* paragraph terminator)
RunEnd(cells, i, j) ==
    IF i = j \/ IsDateCell(cells[i + 1]) THEN i ELSE RunEnd(cells, i + 1, j)

TextOf(cells, a, b) ==
    [k \in 1..(b - a + 1) |->
        IF IsNewline(cells[a + k - 1]) THEN "\n" ELSE cells[a + k - 1]]

RECURSIVE ParagraphElements(_, _, _)
\* the elements of the paragraph occupying indexes i..j
ParagraphElements(cells, i, j) ==
    IF i > j THEN <<>>
    ELSE IF IsDateCell(cells[i])
    THEN <<[type |-> "dateElement", timestamp |-> ChipTimestamp(cells[i]),
            content |-> <<>>]>> \o ParagraphElements(cells, i + 1, j)
    ELSE LET e == RunEnd(cells, i, j)
         IN  <<[type |-> "textRun", timestamp |-> EmptyStr,
                content |-> TextOf(cells, i, e)]>>
             \o ParagraphElements(cells, e + 1, j)

RECURSIVE ParagraphEnd(_, _)
\* index of the terminator of the paragraph that contains index i
ParagraphEnd(cells, i) ==
    IF i >= Len(cells) \/ IsNewline(cells[i]) THEN i
    ELSE ParagraphEnd(cells, i + 1)

RECURSIVE TableEnd(_, _)
TableEnd(cells, i) ==
    IF i < Len(cells) /\ cells[i + 1] = TBL THEN TableEnd(cells, i + 1) ELSE i

RECURSIVE BodyFrom(_, _)
BodyFrom(cells, i) ==
    IF i > Len(cells) THEN <<>>
    ELSE IF cells[i] = TBL
    THEN LET j == TableEnd(cells, i)
         IN  <<[type |-> "table", startIndex |-> i, endIndex |-> j + 1,
                namedStyleType |-> "", elements |-> <<>>]>>
             \o BodyFrom(cells, j + 1)
    ELSE LET j == ParagraphEnd(cells, i)
         IN  <<[type |-> "paragraph", startIndex |-> i, endIndex |-> j + 1,
                namedStyleType |-> IF cells[j] = NLH THEN "HEADING_2"
                                   ELSE "NORMAL_TEXT",
                elements |-> ParagraphElements(cells, i, j)]>>
             \o BodyFrom(cells, j + 1)

\* doc.get("body", {}).get("content", [])
BodyContent(cells) == BodyFrom(cells, 1)

(***************************************************************************)
(* The flattened text: the loop over paragraphs and text runs.             *)
(***************************************************************************)
RECURSIVE RunsText(_, _)
RunsText(elements, k) ==
    IF k > Len(elements) THEN <<>>
    ELSE (IF elements[k].type = "textRun" THEN elements[k].content ELSE <<>>)
         \o RunsText(elements, k + 1)

RECURSIVE FullTextFromWithTables(_, _)
\* FullTextFrom with a line break kept for every table
FullTextFromWithTables(content, k) ==
    IF k > Len(content) THEN <<>>
    ELSE (IF content[k].type = "paragraph"
          THEN RunsText(content[k].elements, 1) ELSE <<"\n">>)
         \o FullTextFromWithTables(content, k + 1)

RECURSIVE FullTextFrom(_, _)
FullTextFrom(content, k) ==
    IF k > Len(content) THEN <<>>
    ELSE (IF content[k].type = "paragraph"
          THEN RunsText(content[k].elements, 1) ELSE <<>>)
         \o FullTextFrom(content, k + 1)

FullText(cells) == FullTextFrom(BodyContent(cells), 1)

(***************************************************************************)
(* read_google_doc: the snapshot section of the flattened text.            *)
(***************************************************************************)
ExtractSnapshot(text) ==
    IF Contains(text, SNAPSHOT_MARKER_START) /\ Contains(text, SNAPSHOT_MARKER_END)
    THEN LET start == Find(text, SNAPSHOT_MARKER_START)
             end   == Find(text, SNAPSHOT_MARKER_END) + Len(SNAPSHOT_MARKER_END)
         IN  Slice(text, start, end)
    ELSE <<>>

(***************************************************************************)
(* append_to_google_doc, step 1: the scan for the notes anchor.            *)
(***************************************************************************)
RECURSIVE HeadingDatesSkipBad(_, _, _)
\* HeadingDates with a timestamp that does not parse passed over
HeadingDatesSkipBad(elements, k, call_date_str) ==
    IF k > Len(elements) THEN "nomatch"
    ELSE LET el == elements[k]
         IN  IF el.type = "dateElement" /\ el.timestamp.kind # "empty"
             THEN IF FromIsoFormat(el.timestamp) = ParseError
                  THEN HeadingDatesSkipBad(elements, k + 1, call_date_str)
                  ELSE IF call_date_str = Strftime(FromIsoFormat(el.timestamp))
                  THEN "match"
                  ELSE HeadingDatesSkipBad(elements, k + 1, call_date_str)
             ELSE HeadingDatesSkipBad(elements, k + 1, call_date_str)

RECURSIVE HeadingDates(_, _, _)
\* the loop over the elements of a HEADING_2 paragraph: "match" when a
\* date element of the call's day is reached, "raise" when fromisoformat
\* fails on a non-empty timestamp, "nomatch" when the loop runs out
HeadingDates(elements, k, call_date_str) ==
    IF k > Len(elements) THEN "nomatch"
    ELSE LET el == elements[k]
         IN  IF el.type = "dateElement" /\ el.timestamp.kind # "empty"
             THEN IF FromIsoFormat(el.timestamp) = ParseError THEN "raise"
                  ELSE IF call_date_str = Strftime(FromIsoFormat(el.timestamp))
                  THEN "match"
                  ELSE HeadingDates(elements, k + 1, call_date_str)
             ELSE HeadingDates(elements, k + 1, call_date_str)

RECURSIVE HasAttendees(_, _)
\* the loop over the text runs of a paragraph after the matching heading
HasAttendees(elements, k) ==
    IF k > Len(elements) THEN FALSE
    ELSE IF /\ elements[k].type = "textRun"
            /\ \/ Contains(elements[k].content, ATTENDEES)
               \/ Contains(Lower(elements[k].content), ATTENDEES_LOWER)
    THEN TRUE
    ELSE HasAttendees(elements, k + 1)

NoAnchor == [insert_index |-> 0, raised |-> FALSE]

RECURSIVE ScanContentStopAtHeading(_, _, _, _)
\* ScanContent with a scan that gives up at the first HEADING_2 after the
\* matched one
ScanContentStopAtHeading(content, k, found_matching_heading, call_date_str) ==
    IF k > Len(content) THEN NoAnchor
    ELSE LET element == content[k]
         IN  IF element.type # "paragraph"
             THEN ScanContentStopAtHeading(content, k + 1, found_matching_heading,
                                           call_date_str)
             ELSE IF ~found_matching_heading /\ element.namedStyleType = "HEADING_2"
             THEN LET r == HeadingDates(element.elements, 1, call_date_str)
                  IN  IF r = "raise" THEN [insert_index |-> 0, raised |-> TRUE]
                      ELSE ScanContentStopAtHeading(content, k + 1, r = "match",
                                                    call_date_str)
             ELSE IF found_matching_heading /\ element.namedStyleType = "HEADING_2"
             THEN NoAnchor
             ELSE IF found_matching_heading /\ HasAttendees(element.elements, 1)
             THEN [insert_index |-> element.endIndex, raised |-> FALSE]
             ELSE ScanContentStopAtHeading(content, k + 1, found_matching_heading,
                                           call_date_str)

RECURSIVE ScanContent(_, _, _, _)
\* the loop over content_elements, from element k on, with the loop's
\* found_matching_heading; insert_index 0 is None
ScanContent(content, k, found_matching_heading, call_date_str) ==
    IF k > Len(content) THEN NoAnchor
    ELSE LET element == content[k]
         IN  IF element.type # "paragraph"
             THEN ScanContent(content, k + 1, found_matching_heading, call_date_str)
             ELSE IF ~found_matching_heading /\ element.namedStyleType = "HEADING_2"
             THEN LET r == HeadingDates(element.elements, 1, call_date_str)
                  IN  IF r = "raise" THEN [insert_index |-> 0, raised |-> TRUE]
                      ELSE ScanContent(content, k + 1, r = "match", call_date_str)
             ELSE IF found_matching_heading /\ HasAttendees(element.elements, 1)
             THEN [insert_index |-> element.endIndex, raised |-> FALSE]
             ELSE ScanContent(content, k + 1, found_matching_heading, call_date_str)

\* ResolveAnchor with a fallback to the end of the body when no block is found
ResolveAnchorOrEnd(cells, call_date_str) ==
    LET r == ScanContent(BodyContent(cells), 1, FALSE, call_date_str)
    IN  IF r.insert_index = 0 /\ ~r.raised
        THEN [insert_index |-> Len(cells), raised |-> FALSE]
        ELSE r

ResolveAnchor(cells, call_date_str) ==
    ScanContent(BodyContent(cells), 1, FALSE, call_date_str)

(***************************************************************************)
(* append_to_google_doc, steps 1 and 2: the requests of the batch.         *)
(***************************************************************************)
InsertText(index, text) ==
    [req |-> "insertText", index |-> index, endIndex |-> 0, text |-> text]

DeleteContentRange(startIndex, endIndex) ==
    [req |-> "deleteContentRange", index |-> startIndex, endIndex |-> endIndex,
     text |-> <<>>]

\* BuildRequests with the offsets of the flattened text used as they are
BuildRequestsNoOffset(text, index, snap, notes) ==
    <<InsertText(index, <<"\n">> \o notes \o <<"\n", "\n">>)>> \o
    (IF Contains(text, SNAPSHOT_MARKER_START) /\ Contains(text, SNAPSHOT_MARKER_END)
     THEN LET start_idx == Find(text, SNAPSHOT_MARKER_START)
              end_idx   == Find(text, SNAPSHOT_MARKER_END) + Len(SNAPSHOT_MARKER_END)
          IN  <<DeleteContentRange(start_idx, end_idx),
                InsertText(start_idx, snap)>>
     ELSE <<InsertText(1, snap \o <<"\n", "\n">>)>>)

\* BuildRequests with "or" for "and" in the test for an existing section
BuildRequestsEitherSentinel(text, index, snap, notes) ==
    <<InsertText(index, <<"\n">> \o notes \o <<"\n", "\n">>)>> \o
    (IF Contains(text, SNAPSHOT_MARKER_START) \/ Contains(text, SNAPSHOT_MARKER_END)
     THEN LET start_idx == Find(text, SNAPSHOT_MARKER_START)
              end_idx   == Find(text, SNAPSHOT_MARKER_END) + Len(SNAPSHOT_MARKER_END)
          IN  <<DeleteContentRange(start_idx + 1, end_idx + 1),
                InsertText(start_idx + 1, snap)>>
     ELSE <<InsertText(1, snap \o <<"\n", "\n">>)>>)

\* BuildRequests with the new snapshot inserted before the old one is deleted
BuildRequestsInsertFirst(text, index, snap, notes) ==
    <<InsertText(index, <<"\n">> \o notes \o <<"\n", "\n">>)>> \o
    (IF Contains(text, SNAPSHOT_MARKER_START) /\ Contains(text, SNAPSHOT_MARKER_END)
     THEN LET start_idx == Find(text, SNAPSHOT_MARKER_START)
              end_idx   == Find(text, SNAPSHOT_MARKER_END) + Len(SNAPSHOT_MARKER_END)
          IN  <<InsertText(start_idx + 1, snap),
                DeleteContentRange(start_idx + 1, end_idx + 1)>>
     ELSE <<InsertText(1, snap \o <<"\n", "\n">>)>>)

\* BuildRequests with the snapshot always inserted at the start of the body
BuildRequestsAlwaysInsert(text, index, snap, notes) ==
    <<InsertText(index, <<"\n">> \o notes \o <<"\n", "\n">>),
      InsertText(1, snap \o <<"\n", "\n">>)>>

BuildRequests(text, index, snap, notes) ==
    <<InsertText(index, <<"\n">> \o notes \o <<"\n", "\n">>)>> \o
    (IF Contains(text, SNAPSHOT_MARKER_START) /\ Contains(text, SNAPSHOT_MARKER_END)
     THEN LET start_idx == Find(text, SNAPSHOT_MARKER_START)
              end_idx   == Find(text, SNAPSHOT_MARKER_END) + Len(SNAPSHOT_MARKER_END)
          IN  <<DeleteContentRange(start_idx + 1, end_idx + 1),
                InsertText(start_idx + 1, snap)>>
     ELSE <<InsertText(1, snap \o <<"\n", "\n">>)>>)

(***************************************************************************)
(* documents().batchUpdate, as the Docs service executes it.  A batch is   *)
(* atomic: if one request is invalid nothing is applied.                   *)
(***************************************************************************)
Rejected == <<"!">>

\* a body the service can hold: it ends with a paragraph, and a table
\* starts where a paragraph or the body starts
WellFormed(cells) ==
    /\ Len(cells) >= 1
    /\ IsNewline(cells[Len(cells)])
    /\ \A k \in 1..Len(cells) :
          cells[k] = TBL => (k = 1 \/ cells[k - 1] = TBL \/ IsNewline(cells[k - 1]))

\* inserted text takes the paragraph style found at the insertion index
Styled(text, terminator) ==
    [k \in 1..Len(text) |-> IF text[k] = "\n" THEN terminator ELSE text[k]]

\* an insertion index lies inside an existing paragraph
ValidInsert(cells, i) == i >= 1 /\ i <= Len(cells) /\ cells[i] # TBL

\* a range is not empty, spares the final newline and cuts no table
ValidDelete(cells, s, e) ==
    /\ s >= 1 /\ s < e /\ e <= Len(cells)
    /\ ~(s > 1 /\ cells[s] = TBL /\ cells[s - 1] = TBL)
    /\ ~(cells[e - 1] = TBL /\ cells[e] = TBL)

ApplyRequest(cells, r) ==
    IF cells = Rejected THEN Rejected
    ELSE IF r.req = "insertText"
    THEN IF ValidInsert(cells, r.index)
         THEN SubSeq(cells, 1, r.index - 1)
              \o Styled(r.text, cells[ParagraphEnd(cells, r.index)])
              \o SubSeq(cells, r.index, Len(cells))
         ELSE Rejected
    ELSE IF ValidDelete(cells, r.index, r.endIndex)
         THEN LET d == SubSeq(cells, 1, r.index - 1)
                       \o SubSeq(cells, r.endIndex, Len(cells))
              IN  IF WellFormed(d) THEN d ELSE Rejected
         ELSE Rejected

RECURSIVE ApplySequentialFrom(_, _, _)
ApplySequentialFrom(cells, requests, k) ==
    IF k > Len(requests) THEN cells
    ELSE ApplySequentialFrom(ApplyRequest(cells, requests[k]), requests, k + 1)

\* every request is resolved against the document left by the one before
ApplySequential(cells, requests) == ApplySequentialFrom(cells, requests, 1)

(***************************************************************************)
(* The other contract for a batch: every index is resolved against the     *)
(* document as it was before the batch.  A tag keeps, for each cell, its   *)
(* index in that document (0 for a cell the batch inserted).               *)
(***************************************************************************)
RECURSIVE PosOfOrigin(_, _, _)
\* position of the first surviving cell whose original index is >= i
PosOfOrigin(tags, i, k) ==
    IF k > Len(tags) THEN k
    ELSE IF tags[k] >= i THEN k
    ELSE PosOfOrigin(tags, i, k + 1)

Keep(tags, s, e) == {k \in 1..Len(tags) : ~(tags[k] >= s /\ tags[k] < e)}

RECURSIVE Pick(_, _, _)
\* the subsequence of seq at the positions of keep, from position k on
Pick(seq, keep, k) ==
    IF k > Len(seq) THEN <<>>
    ELSE (IF k \in keep THEN <<seq[k]>> ELSE <<>>) \o Pick(seq, keep, k + 1)

ApplyTagged(st, original, r) ==
    IF st.c = Rejected THEN st
    ELSE IF r.req = "insertText"
    THEN IF ValidInsert(original, r.index)
         THEN LET k == PosOfOrigin(st.g, r.index, 1)
              IN  [c |-> SubSeq(st.c, 1, k - 1)
                         \o Styled(r.text, st.c[ParagraphEnd(st.c, k)])
                         \o SubSeq(st.c, k, Len(st.c)),
                   g |-> SubSeq(st.g, 1, k - 1)
                         \o [j \in 1..Len(r.text) |-> 0]
                         \o SubSeq(st.g, k, Len(st.g))]
         ELSE [c |-> Rejected, g |-> <<>>]
    ELSE IF ValidDelete(original, r.index, r.endIndex)
         THEN LET keep == Keep(st.g, r.index, r.endIndex)
              IN  [c |-> Pick(st.c, keep, 1), g |-> Pick(st.g, keep, 1)]
         ELSE [c |-> Rejected, g |-> <<>>]

RECURSIVE ApplyOriginalFrom(_, _, _, _)
ApplyOriginalFrom(st, original, requests, k) ==
    IF k > Len(requests) THEN st
    ELSE ApplyOriginalFrom(ApplyTagged(st, original, requests[k]), original,
                           requests, k + 1)

ApplyOriginal(cells, requests) ==
    LET st == ApplyOriginalFrom([c |-> cells, g |-> [k \in 1..Len(cells) |-> k]],
                                cells, requests, 1)
    IN  IF st.c # Rejected /\ WellFormed(st.c) THEN st.c ELSE Rejected

BatchUpdate(cells, requests, sem) ==
    IF sem = "sequential" THEN ApplySequential(cells, requests)
    ELSE ApplyOriginal(cells, requests)

(***************************************************************************)
(* The documents and arguments the model starts from.                      *)
(***************************************************************************)
HeadingDay1   == <<"@D1", NLH>>                  \* heading dated day 1
MeetingBlock2 == <<"@", "@D2", NLH, "A", ":", NL>> \* heading with an empty chip and a
                                                 \* chip of day 2, and its Attendees line
PlainBlock    == <<"x", NLH, "A", ":", NL>>      \* undated heading and an Attendees line
HeadingBad    == <<"A", "@bad", ":", NLH>>       \* a chip whose timestamp does not parse,
                                                 \* between the text runs "A" and ":"
AttendeesLow  == <<"x", "a", ":", NL>>
TextPar       == <<"x", NL>>
Table         == <<TBL, TBL>>
OldSnapshot   == <<"=", "S", "=", NL, "o", NL, "=", "E", "=", NL>>
StartPar      == <<"=", "S", "=", NL>>
EndPar        == <<"=", "E", "=", NL>>

Palette == {HeadingDay1, MeetingBlock2, PlainBlock, HeadingBad, AttendeesLow,
            TextPar, Table, OldSnapshot, StartPar, EndPar}

RECURSIVE Concat(_, _)
Concat(pieces, k) ==
    IF k > Len(pieces) THEN <<>> ELSE pieces[k] \o Concat(pieces, k + 1)

\* a body always ends with a paragraph
Closed(cells) ==
    IF cells = <<>> \/ cells[Len(cells)] = TBL THEN cells \o <<NL>> ELSE cells

DocumentsUpTo(blocks) ==
    UNION {{Closed(Concat(f, 1)) : f \in [1..n -> Palette]} : n \in 0..blocks}

Documents == DocumentsUpTo(MaxBlocks)

\* new snapshot payloads, sentinel to sentinel, shorter and longer than
\* the section of OldSnapshot
Snapshots == {<<"=", "S", "=", "\n", "=", "E", "=">>,
              <<"=", "S", "=", "\n", "n", "\n", "n", "\n", "=", "E", "=">>}

CallNotes == {<<"c">>}

\* call_date and the offset of the process it is parsed in: day 1 at
\* 15:00Z; 20:00 UTC of day 1 as epoch seconds, read at UTC+9 (day 2
\* there); the empty string; a string that is no timestamp
CallDates == {<<Iso(1 * 24 + 15, 0), 0>>,
              <<Epoch(1 * 24 + 20), 9>>,
              <<EmptyStr, 0>>,
              <<BadStr, 0>>}

Semantics == {"sequential", "original"}

NotRead == <<"?">>

\* no second invocation is running
Idle == [pc |-> "idle"]

\* no other activity is invoked; an invocation that has not returned yet
NoCall == [activity |-> "none"]
NotReturned == [status |-> "running"]

\* run has not received the transcript yet
NoTranscript == [call_date |-> "none"]

\* the workflow as constructed (__init__) and about to start run
WorkflowInit ==
    /\ wf_pc = "fetch_gong_transcript"
    /\ doc_url = ""
    /\ block_confirmed = FALSE
    /\ transcript = NoTranscript
    /\ found_url = ""
    /\ attempt = 0
    /\ executed = <<>>
    /\ delivered = <<>>

\* the state before any invocation and before run starts, for a document of
\* the given set and the inputs of an activity of the given set
InitWith(documents, calls) ==
    /\ doc \in documents
    /\ pc = "start"
    /\ call_date = EmptyStr
    /\ tz = 0
    /\ snapshot = <<>>
    /\ call_notes = <<>>
    /\ semantics = "none"
    /\ doc_read = <<>>
    /\ full_text = <<>>
    /\ insert_index = 0
    /\ requests_body = <<>>
    /\ err = "none"
    /\ existing_snapshot = NotRead
    /\ doc_seen = <<>>
    /\ history = <<>>
    /\ other = Idle
    /\ WorkflowInit
    /\ trigger_pc = "start_workflow"
    /\ sent = <<>>
    /\ call \in calls
    /\ returned = NotReturned

InitOn(documents) == InitWith(documents, {NoCall})

Init == InitOn(Documents)

(***************************************************************************)
(* read_google_doc.                                                        *)
(***************************************************************************)
\* (reading the same document again returns the same value: no new state)
ReadGoogleDoc ==
    /\ doc_seen # doc
    /\ doc_seen' = doc
    /\ existing_snapshot' = ExtractSnapshot(FullText(doc))
    /\ UNCHANGED <<doc, pc, call_date, snapshot, call_notes, tz, semantics,
                   doc_read, full_text, insert_index, requests_body, err>>
    /\ UNCHANGED <<history, other, workflowVars, clientVars, activityVars>>

(***************************************************************************)
(* append_to_google_doc up to the batchUpdate call: documents().get, the   *)
(* flattened text, the call date, the scan and the requests.               *)
(***************************************************************************)
Raise(e) ==
    /\ pc' = "failed"
    /\ err' = e
    /\ UNCHANGED <<insert_index, requests_body>>

AppendPrepare(snap, notes, date, offset) ==
    /\ pc = "start"
    /\ snapshot' = snap
    /\ call_notes' = notes
    /\ call_date' = date
    /\ tz' = offset
    /\ doc_read' = doc
    /\ full_text' = FullText(doc)
    /\ LET call_date_str == CallDateStr(date, offset)
           scan == ResolveAnchor(doc, call_date_str)
       IN  IF call_date_str = ParseError THEN Raise("DateParse")
           ELSE IF scan.raised THEN Raise("ValueError")
           ELSE IF scan.insert_index = 0 THEN Raise("AnchorNotFound")
           ELSE /\ insert_index' = scan.insert_index
                /\ requests_body' = BuildRequests(full_text', scan.insert_index,
                                                  snap, notes)
                /\ pc' = "built"
                /\ err' = "none"
    /\ UNCHANGED <<doc, semantics, existing_snapshot, doc_seen>>
    /\ UNCHANGED <<history, other, workflowVars, clientVars, activityVars>>

(***************************************************************************)
(* The body of the batchUpdate call and what the service does with it: a   *)
(* body that names the revision it was computed from is refused when the   *)
(* document has changed since, a body without write control is applied to  *)
(* the document as it is.                                                  *)
(***************************************************************************)
NoWriteControl == <<"none">>

\* the body with the revision that was read as its required revision
BatchBodyWithRevision(requests, read) ==
    [requests |-> requests, writeControl |-> read]

\* body={"requests": requests_body}
BatchBody(requests, read) ==
    [requests |-> requests, writeControl |-> NoWriteControl]

\* documents().batchUpdate(documentId, body).execute()
Execute(cells, body, sem) ==
    IF body.writeControl # NoWriteControl /\ body.writeControl # cells
    THEN Rejected
    ELSE BatchUpdate(cells, body.requests, sem)

(***************************************************************************)
(* append_to_google_doc, the batchUpdate call and the return.  The service *)
(* resolves the indexes of the batch one way or the other.                 *)
(***************************************************************************)
AppendExecute(sem) ==
    /\ pc = "built"
    /\ semantics' = sem
    /\ LET result == Execute(doc, BatchBody(requests_body, doc_read), sem)
       IN  IF result = Rejected
           THEN /\ pc' = "failed"
                /\ err' = "HttpError"
                /\ doc' = doc
           ELSE /\ pc' = "done"
                /\ err' = "none"
                /\ doc' = result
    /\ UNCHANGED <<call_date, snapshot, call_notes, tz, doc_read, full_text,
                   insert_index, requests_body, existing_snapshot, doc_seen>>
    /\ UNCHANGED <<history, other, workflowVars, clientVars, activityVars>>

Next ==
    \/ ReadGoogleDoc
    \/ \E snap \in Snapshots, notes \in CallNotes, cd \in CallDates :
          AppendPrepare(snap, notes, cd[1], cd[2])
    \/ \E sem \in Semantics : AppendExecute(sem)

Spec == Init /\ [][Next]_vars

(***************************************************************************)
(* Successive invocations on one document: once append_to_google_doc has   *)
(* returned True it is invoked again, on the document the earlier          *)
(* invocations left.                                                       *)
(***************************************************************************)
InitRepeat == InitOn(DocumentsUpTo(MaxBlocksRepeat))

\* return True, and the entry of the next invocation
AppendReturn ==
    /\ pc = "done"
    /\ Len(history) + 1 < MaxWrites
    /\ history' = Append(history, [snapshot |-> snapshot, call_notes |-> call_notes,
                                   call_date |-> call_date, tz |-> tz,
                                   before |-> doc_read, after |-> doc])
    /\ pc' = "start"
    /\ call_date' = EmptyStr
    /\ tz' = 0
    /\ snapshot' = <<>>
    /\ call_notes' = <<>>
    /\ semantics' = "none"
    /\ doc_read' = <<>>
    /\ full_text' = <<>>
    /\ insert_index' = 0
    /\ requests_body' = <<>>
    /\ err' = "none"
    /\ UNCHANGED <<doc, existing_snapshot, doc_seen, other, workflowVars, clientVars, activityVars>>

NextRepeat ==
    \/ \E snap \in Snapshots, notes \in CallNotes, cd \in CallDates :
          AppendPrepare(snap, notes, cd[1], cd[2])
    \/ \E sem \in Semantics : AppendExecute(sem)
    \/ AppendReturn

SpecRepeat == InitRepeat /\ [][NextRepeat]_vars

(***************************************************************************)
(* Two invocations of append_to_google_doc on one document, for two calls: *)
(* the one of the variables above and a second one, held in the record     *)
(* other, whose steps interleave with it.                                  *)
(***************************************************************************)
\* the call notes of the second call
OtherCallNotes == {<<"d">>}

InitRace == InitOn(DocumentsUpTo(MaxBlocksRace))

\* the second invocation up to the batchUpdate call
OtherPrepare(snap, notes, date, offset) ==
    /\ other = Idle
    /\ LET call_date_str == CallDateStr(date, offset)
           scan == ResolveAnchor(doc, call_date_str)
           failed(e) == [pc |-> "failed", err |-> e, snapshot |-> snap,
                         call_notes |-> notes, call_date |-> date, tz |-> offset,
                         doc_read |-> doc, insert_index |-> 0,
                         requests_body |-> <<>>, semantics |-> "none",
                         applied_on |-> <<>>]
       IN  other' =
             IF call_date_str = ParseError THEN failed("DateParse")
             ELSE IF scan.raised THEN failed("ValueError")
             ELSE IF scan.insert_index = 0 THEN failed("AnchorNotFound")
             ELSE [pc |-> "built", err |-> "none", snapshot |-> snap,
                   call_notes |-> notes, call_date |-> date, tz |-> offset,
                   doc_read |-> doc, insert_index |-> scan.insert_index,
                   requests_body |-> BuildRequests(FullText(doc), scan.insert_index,
                                                   snap, notes),
                   semantics |-> "none", applied_on |-> <<>>]
    /\ UNCHANGED <<appendVars, history, workflowVars, clientVars, activityVars>>

\* the batchUpdate call of the second invocation, and its return
OtherExecute(sem) ==
    /\ other # Idle
    /\ other.pc = "built"
    /\ LET result == Execute(doc, BatchBody(other.requests_body, other.doc_read), sem)
       IN  IF result = Rejected
           THEN /\ other' = [other EXCEPT !.pc = "failed", !.err = "HttpError",
                                          !.semantics = sem, !.applied_on = doc]
                /\ doc' = doc
           ELSE /\ other' = [other EXCEPT !.pc = "done", !.semantics = sem,
                                          !.applied_on = doc]
                /\ doc' = result
    /\ UNCHANGED <<pc, call_date, snapshot, call_notes, tz, semantics, doc_read,
                   full_text, insert_index, requests_body, err, existing_snapshot,
                   doc_seen, history, workflowVars, clientVars, activityVars>>

NextRace ==
    \/ \E snap \in Snapshots, notes \in CallNotes, cd \in CallDates :
          AppendPrepare(snap, notes, cd[1], cd[2])
    \/ \E sem \in Semantics : AppendExecute(sem)
    \/ \E snap \in Snapshots, notes \in OtherCallNotes, cd \in CallDates :
          OtherPrepare(snap, notes, cd[1], cd[2])
    \/ \E sem \in Semantics : OtherExecute(sem)

SpecRace == InitRace /\ [][NextRace]_vars

(***************************************************************************)
(* ProcessCallNotesWorkflow: run, its two signal handlers, and the         *)
(* attempts of its activities under the retry policy of run.               *)
(***************************************************************************)
\* RetryPolicy(maximum_attempts=3, ...)
maximum_attempts == 3

\* what llm_find_google_doc returns ("" when no document is found) and what
\* a provide_doc_url signal carries
FoundUrls == {"", "https://docs.google.com/document/d/found/edit"}
SignalUrls == {"", "https://docs.google.com/document/d/one/edit",
               "https://docs.google.com/document/d/two/edit"}

\* the documents of the account the run is about
WorkflowDocuments ==
    {Closed(<<>>), MeetingBlock2, HeadingDay1 \o PlainBlock, OldSnapshot \o HeadingDay1}

\* metadata.get("scheduled", "") of the call
ScheduledTimes == {cd[1] : cd \in CallDates}

InitWorkflow == InitOn(WorkflowDocuments)

\* the workflow is running (a closed workflow takes no signal)
Running == wf_pc \notin {"completed", "failed"}

\* the retry policy allows another attempt after that many attempts
CanRetryOnceMore(attempts) == attempts < maximum_attempts + 1

CanRetry(attempts) == attempts < maximum_attempts

\* one attempt of the activity run is awaiting: it is recorded, and a
\* failed attempt is retried by the policy or fails the workflow
ExecuteActivity(name, ok, result) ==
    /\ executed' = Append(executed, [activity |-> name, ok |-> ok, result |-> result])
    /\ attempt' = IF ok THEN 0 ELSE attempt + 1
    /\ ~ok => /\ wf_pc' = IF CanRetry(attempt + 1) THEN wf_pc ELSE "failed"
              /\ UNCHANGED <<transcript, found_url>>

\* the condition of workflow.wait_condition, with any signal releasing it
DocUrlSignalled == delivered # <<>>

\* the condition of workflow.wait_condition
DocUrlProvided == doc_url # ""

\* signal provide_doc_url
ProvideDocUrl(url) ==
    /\ Running
    /\ Len(delivered) < MaxSignals
    /\ doc_url' = url
    /\ delivered' = Append(delivered, [url |-> url, at |-> Len(executed)])
    /\ UNCHANGED <<wf_pc, block_confirmed, transcript, found_url, attempt, executed>>
    /\ UNCHANGED <<appendVars, history, other, clientVars, activityVars>>

\* signal confirm_block_created
ConfirmBlockCreated ==
    /\ Running
    /\ ~block_confirmed
    /\ block_confirmed' = TRUE
    /\ UNCHANGED <<wf_pc, doc_url, transcript, found_url, attempt, executed, delivered>>
    /\ UNCHANGED <<appendVars, history, other, clientVars, activityVars>>

\* step 1 of run: an attempt of fetch_gong_transcript
FetchGongTranscript(ok, scheduled) ==
    /\ wf_pc = "fetch_gong_transcript"
    /\ ExecuteActivity("fetch_gong_transcript", ok, "")
    /\ ok => /\ transcript' = [call_date |-> scheduled]
             /\ wf_pc' = "llm_find_google_doc"
             /\ UNCHANGED found_url
    /\ UNCHANGED <<doc_url, block_confirmed, delivered>>
    /\ UNCHANGED <<appendVars, history, other, clientVars, activityVars>>

\* LlmFindGoogleDoc with a URL delivered by provide_doc_url preferred to the
\* URL the lookup returned
LlmFindGoogleDocPreferSignal(ok, url) ==
    /\ wf_pc = "llm_find_google_doc"
    /\ ExecuteActivity("llm_find_google_doc", ok, url)
    /\ ok => /\ IF DocUrlProvided THEN found_url' = doc_url /\ wf_pc' = "completed"
                ELSE IF url # "" THEN found_url' = url /\ wf_pc' = "completed"
                ELSE found_url' = url /\ wf_pc' = "wait_doc_url"
             /\ UNCHANGED transcript
    /\ UNCHANGED <<doc_url, block_confirmed, delivered>>
    /\ UNCHANGED <<appendVars, history, other, clientVars, activityVars>>

\* step 2 of run: an attempt of llm_find_google_doc; with a result run goes
\* on to its return statement, or to the wait for provide_doc_url
LlmFindGoogleDoc(ok, url) ==
    /\ wf_pc = "llm_find_google_doc"
    /\ ExecuteActivity("llm_find_google_doc", ok, url)
    /\ ok => /\ IF url # "" THEN found_url' = url /\ wf_pc' = "completed"
                ELSE IF DocUrlProvided THEN found_url' = doc_url /\ wf_pc' = "completed"
                ELSE found_url' = url /\ wf_pc' = "wait_doc_url"
             /\ UNCHANGED transcript
    /\ UNCHANGED <<doc_url, block_confirmed, delivered>>
    /\ UNCHANGED <<appendVars, history, other, clientVars, activityVars>>

\* run resumes from workflow.wait_condition and returns
ResumeWithDocUrl ==
    /\ wf_pc = "wait_doc_url"
    /\ DocUrlProvided
    /\ found_url' = doc_url
    /\ wf_pc' = "completed"
    /\ UNCHANGED <<doc_url, block_confirmed, transcript, attempt, executed, delivered>>
    /\ UNCHANGED <<appendVars, history, other, clientVars, activityVars>>

\* Worker(client, task_queue="gong-notes-queue", ..., activities=[...]): the
\* activities the worker of the task queue registers
activities == {"fetch_gong_transcript", "find_google_doc", "read_google_doc",
               "structure_with_claude", "append_to_google_doc", "post_to_slack"}

NextWorkflow ==
    \/ \E url \in SignalUrls : ProvideDocUrl(url)
    \/ ConfirmBlockCreated
    \/ \E scheduled \in ScheduledTimes : FetchGongTranscript(TRUE, scheduled)
    \/ FetchGongTranscript(FALSE, EmptyStr)
    \/ \E url \in FoundUrls : LlmFindGoogleDoc(TRUE, url)
    \/ LlmFindGoogleDoc(FALSE, "")
    \/ ResumeWithDocUrl

SpecWorkflow == InitWorkflow /\ [][NextWorkflow]_vars

(***************************************************************************)
(* main of trigger.py: the client that starts a run, waits 30 seconds for  *)
(* its result and, on the timeout, asks for a document URL and signals it. *)
(* The run is signalled by this client only.                               *)
(***************************************************************************)
\* what input("Enter Google Doc URL: ") can return: a line is a sequence of
\* blanks and of URLs (a URL is one element)
Lines == {<<>>, <<" ">>, <<" ", " ">>,
          <<"https://docs.google.com/document/d/one/edit">>,
          <<" ", "https://docs.google.com/document/d/two/edit", " ">>}

\* the string of a stripped line of at most one URL
Str(s) == IF s = <<>> THEN "" ELSE s[1]

InitTrigger == InitOn(WorkflowDocuments)

\* client.start_workflow has returned the handle
Started == trigger_pc # "start_workflow"

\* handle = await client.start_workflow(...)
StartWorkflow ==
    /\ trigger_pc = "start_workflow"
    /\ trigger_pc' = "wait_for"
    /\ UNCHANGED <<sent, appendVars, history, other, workflowVars, activityVars>>

\* handle.result() of a closed run: the result, or the failure it raises
HandleResult == IF wf_pc = "completed" THEN "done" ELSE "failed"

\* asyncio.wait_for(handle.result(), timeout=30) returns within the timeout
ResultInTime ==
    /\ trigger_pc = "wait_for"
    /\ ~Running
    /\ trigger_pc' = HandleResult
    /\ UNCHANGED <<sent, appendVars, history, other, workflowVars, activityVars>>

\* except asyncio.TimeoutError: the 30 seconds have passed
TimeoutError ==
    /\ trigger_pc = "wait_for"
    /\ trigger_pc' = "input"
    /\ UNCHANGED <<sent, appendVars, history, other, workflowVars, activityVars>>

\* "if doc_url:" with any line taken for a URL
EnteredAnything(url) == TRUE

\* if doc_url:
Entered(url) == url # ""

\* doc_url = input(...).strip() and the branch on it: the signal, which a
\* closed run refuses, or the "No URL provided" message
EnterDocUrl(line) ==
    /\ trigger_pc = "input"
    /\ LET url == Str(Strip(line))
       IN  IF Entered(url)
           THEN /\ sent' = Append(sent, url)
                /\ IF Running
                   THEN /\ doc_url' = url
                        /\ delivered' = Append(delivered,
                                               [url |-> url, at |-> Len(executed)])
                        /\ trigger_pc' = "result"
                   ELSE /\ trigger_pc' = "failed"
                        /\ UNCHANGED <<doc_url, delivered>>
           ELSE /\ trigger_pc' = "no_url"
                /\ UNCHANGED <<sent, doc_url, delivered>>
    /\ UNCHANGED <<wf_pc, block_confirmed, transcript, found_url, attempt, executed>>
    /\ UNCHANGED <<appendVars, history, other, activityVars>>

\* result = await handle.result(), after the signal
FinalResult ==
    /\ trigger_pc = "result"
    /\ ~Running
    /\ trigger_pc' = HandleResult
    /\ UNCHANGED <<sent, appendVars, history, other, workflowVars, activityVars>>

NextTrigger ==
    \/ StartWorkflow
    \/ ResultInTime
    \/ TimeoutError
    \/ \E line \in Lines : EnterDocUrl(line)
    \/ FinalResult
    \/ Started /\ \E scheduled \in ScheduledTimes : FetchGongTranscript(TRUE, scheduled)
    \/ Started /\ FetchGongTranscript(FALSE, EmptyStr)
    \/ Started /\ \E url \in FoundUrls : LlmFindGoogleDoc(TRUE, url)
    \/ Started /\ LlmFindGoogleDoc(FALSE, "")
    \/ Started /\ ResumeWithDocUrl

SpecTrigger == InitTrigger /\ [][NextTrigger]_vars

(***************************************************************************)
(* structure_with_claude: the parsing of the model output into snapshot,   *)
(* summary and call notes.  "---SUMMARY---" is written -M- and             *)
(* "---SPLIT---" is written -P-.                                           *)
(***************************************************************************)
SUMMARY_MARK == <<"-", "M", "-">>
SPLIT_MARK   == <<"-", "P", "-">>

RECURSIVE Split(_, _)
\* str.split(sep): the pieces between the occurrences of sep, found from
\* left to right
Split(s, sep) ==
    IF ~Contains(s, sep) THEN <<s>>
    ELSE <<Slice(s, 0, Find(s, sep))>>
         \o Split(Slice(s, Find(s, sep) + Len(sep), Len(s)), sep)

\* what an invocation ends with: a return value or an exception
Returned(value) == [status |-> "returned", value |-> value]
Raised(error)   == [status |-> "raised", error |-> error]

\* call_notes[:500] + "..." if len(call_notes) > 500 else call_notes
SummaryChars == 500

\* the statements after output = message.content[0].text; parts_2[1] raises
\* IndexError when parts_2 has one element
structure_with_claude(output) ==
    IF Contains(output, SUMMARY_MARK) /\ Contains(output, SPLIT_MARK)
    THEN LET parts_1 == Split(output, SUMMARY_MARK)
             parts_2 == Split(parts_1[2], SPLIT_MARK)
         IN  IF Len(parts_2) < 2 THEN Raised("IndexError")
             ELSE Returned([snapshot   |-> Strip(parts_1[1]),
                            summary    |-> Strip(parts_2[1]),
                            call_notes |-> Strip(parts_2[2])])
    ELSE IF Contains(output, SPLIT_MARK)
    THEN LET parts == Split(output, SPLIT_MARK)
             notes == Strip(parts[2])
         IN  Returned([snapshot   |-> Strip(parts[1]),
                       summary    |-> IF Len(notes) > SummaryChars
                                      THEN Slice(notes, 0, SummaryChars)
                                           \o <<".", ".", ".">>
                                      ELSE notes,
                       call_notes |-> notes])
    ELSE LET found == Contains(output, SNAPSHOT_MARKER_END)
             end   == Find(output, SNAPSHOT_MARKER_END) + Len(SNAPSHOT_MARKER_END)
         IN  Returned([snapshot   |-> IF found THEN Slice(output, 0, end) ELSE <<>>,
                       summary    |-> <<>>,
                       call_notes |-> IF found THEN Slice(output, end, Len(output))
                                      ELSE output])

\* the model outputs: up to so many pieces, each a letter, a blank, a
\* marker, the tail of a marker or the end sentinel
OutputPieces == {<<"a">>, <<" ">>, SUMMARY_MARK, SPLIT_MARK, <<"P", "-">>,
                 SNAPSHOT_MARKER_END}

OutputsUpTo(pieces) ==
    UNION {{Concat(f, 1) : f \in [1..n -> OutputPieces]} : n \in 0..pieces}

StructureCalls(outputs) ==
    {[activity |-> "structure_with_claude", output |-> o] : o \in outputs}

\* an invocation of structure_with_claude, from the model output on
InvokeStructureWithClaude ==
    /\ call.activity = "structure_with_claude"
    /\ returned = NotReturned
    /\ returned' = structure_with_claude(call.output)
    /\ UNCHANGED <<call, appendVars, history, other, workflowVars, clientVars>>

(***************************************************************************)
(* find_google_doc: the folder patterns and the choice of the document.    *)
(* Drive is what its two kinds of files().list queries answer: the folders *)
(* whose name contains a pattern, and the documents of a folder.  "notes"  *)
(* is written es and "use case" is written se.                             *)
(***************************************************************************)
None == "None"

NOTES    == <<"e", "s">>
USE_CASE == <<"s", "e">>

\* f"https://docs.google.com/document/d/{id}/edit"; the empty string is <<>>
DocUrl(id) == <<"https://docs.google.com/document/d/", id, "/edit">>

\* patterns = [account_name, account_name.lower()[:8], ...[:6], ...[:4]]
Patterns(account_name) ==
    <<account_name,
      Slice(Lower(account_name), 0, 8),
      Slice(Lower(account_name), 0, 6),
      Slice(Lower(account_name), 0, 4)>>

RECURSIVE TryPatternsLastSingle(_, _, _, _, _)
\* TryPatterns without the break: a later pattern with one folder wins
TryPatternsLastSingle(patterns, k, folders_by, folder_id, folders_found) ==
    IF k > Len(patterns)
    THEN [folder_id |-> folder_id, folders_found |-> folders_found]
    ELSE LET folders == folders_by[patterns[k]]
         IN  IF folders # <<>> /\ Len(folders) = 1
             THEN TryPatternsLastSingle(patterns, k + 1, folders_by, folders[1],
                                        folders_found)
             ELSE TryPatternsLastSingle(patterns, k + 1, folders_by, folder_id,
                      IF folders # <<>> /\ folders_found = <<>> THEN folders
                      ELSE folders_found)

RECURSIVE TryPatterns(_, _, _, _, _)
\* the loop "for pattern in patterns", from pattern k on, with the loop's
\* folder_id and folders_found
TryPatterns(patterns, k, folders_by, folder_id, folders_found) ==
    IF k > Len(patterns)
    THEN [folder_id |-> folder_id, folders_found |-> folders_found]
    ELSE LET folders == folders_by[patterns[k]]
         IN  IF folders # <<>> /\ Len(folders) = 1
             THEN [folder_id |-> folders[1], folders_found |-> folders_found]
             ELSE TryPatterns(patterns, k + 1, folders_by, folder_id,
                      IF folders # <<>> /\ folders_found = <<>> THEN folders
                      ELSE folders_found)

RECURSIVE PriorityDoc(_, _)
\* the loop "for doc in docs": the position of the first document whose
\* lowercased name contains "notes" or "use case", 0 when the loop runs out
PriorityDoc(docs, k) ==
    IF k > Len(docs) THEN 0
    ELSE IF \/ Contains(Lower(docs[k].name), NOTES)
            \/ Contains(Lower(docs[k].name), USE_CASE)
    THEN k
    ELSE PriorityDoc(docs, k + 1)

\* pageSize=10 of the query for the documents of the folder
pageSize == 10

find_google_doc(account_name, folders_by, docs_by) ==
    LET found == TryPatterns(Patterns(account_name), 1, folders_by, None, <<>>)
    IN  IF found.folder_id = None /\ found.folders_found # <<>> THEN Returned(<<>>)
        ELSE IF found.folder_id = None THEN Returned(<<>>)
        ELSE LET docs == Slice(docs_by[found.folder_id], 0, pageSize)
                 p    == PriorityDoc(docs, 1)
             IN  IF docs = <<>> THEN Returned(<<>>)
                 ELSE IF p # 0 THEN Returned(DocUrl(docs[p].id))
                 ELSE IF Len(docs) = 1 THEN Returned(DocUrl(docs[1].id))
                 ELSE Returned(<<>>)

\* account names: one whose four patterns differ, one whose patterns are
\* one and the same
AccountNames == {<<"A", "S", "E", "a", "s", "e", "a", "s", "e">>, <<"a", "s">>}

\* what the folder query can answer
FolderResults == {<<>>, <<"f1">>, <<"f2">>, <<"f1", "f2">>}

\* the documents of Drive: two with a priority name, two without
DriveDocs == {[id |-> "d1", name |-> <<"x", "E", "S">>],
              [id |-> "d2", name |-> <<"S", "e", "x">>],
              [id |-> "d3", name |-> <<"x">>],
              [id |-> "d4", name |-> <<"e", "x", "s">>]}

\* the listings of a folder: up to so many documents, each once
ListingsUpTo(docs) ==
    UNION {{f \in [1..n -> DriveDocs] : \A i, j \in 1..n : f[i] = f[j] => i = j} :
           n \in 0..docs}

FindCalls(listings) ==
    UNION {{[activity |-> "find_google_doc", account_name |-> a, folders_by |-> fb,
             docs_by |-> [f \in {"f1", "f2"} |-> IF f = "f1" THEN l1 ELSE l2]] :
               fb \in [{Patterns(a)[k] : k \in 1..4} -> FolderResults],
               l1 \in listings, l2 \in {<<>>, <<[id |-> "d5", name |-> <<"x">>]>>}} :
           a \in AccountNames}

\* an invocation of find_google_doc, from the first Drive query on
InvokeFindGoogleDoc ==
    /\ call.activity = "find_google_doc"
    /\ returned = NotReturned
    /\ returned' = find_google_doc(call.account_name, call.folders_by, call.docs_by)
    /\ UNCHANGED <<call, appendVars, history, other, workflowVars, clientVars>>

(***************************************************************************)
(* llm_find_google_doc: the customer participants, the candidate documents *)
(* of the two Drive searches, and the handling of the answer of the model. *)
(* "@temporal.io" is written @t.                                           *)
(***************************************************************************)
TEMPORAL_IO == <<"@", "t">>

\* str.endswith
EndsWith(s, suffix) ==
    Len(s) >= Len(suffix) /\ OccursAt(s, suffix, Len(s) - Len(suffix))

\* the loop "for party in parties"
CustomerParticipants(parties) ==
    SelectSeq(parties, LAMBDA party :
        party.emailAddress # <<>> /\ ~EndsWith(party.emailAddress, TEMPORAL_IO))

RECURSIVE DocsByEmail(_, _, _)
\* the loop "for participant in customer_participants": the documents that
\* contain the email of the first participant that has any
DocsByEmail(customer_participants, k, docs_with) ==
    IF k > Len(customer_participants) THEN <<>>
    ELSE IF docs_with[customer_participants[k].emailAddress] # <<>>
    THEN docs_with[customer_participants[k].emailAddress]
    ELSE DocsByEmail(customer_participants, k + 1, docs_with)

\* docs_to_check, <<>> when both searches found nothing
DocsToCheck(parties, folder_docs_found, docs_with) ==
    LET docs_by_email == DocsByEmail(CustomerParticipants(parties), 1, docs_with)
    IN  IF docs_by_email # <<>> THEN docs_by_email ELSE folder_docs_found

\* answer is what json.loads makes of the text of the model
llm_find_google_doc(parties, folder_docs_found, docs_with, answer) ==
    IF CustomerParticipants(parties) = <<>> THEN Returned(<<>>)
    ELSE IF DocsToCheck(parties, folder_docs_found, docs_with) = <<>>
    THEN Returned(<<>>)
    ELSE IF answer.json = "invalid" THEN Returned(<<>>)
    ELSE IF answer.json = "array" THEN Raised("AttributeError")
    ELSE IF answer.error THEN Returned(<<>>)
    ELSE IF answer.needs_user_choice THEN Returned(<<>>)
    ELSE Returned(DocUrl(answer.doc_id))

\* the parties: their emails are empty, of the company, or of two customers
PartiesOfCalls ==
    {<<>>,
     <<[emailAddress |-> <<"e", "@", "t">>]>>,
     <<[emailAddress |-> <<"a", "@", "c">>]>>,
     <<[emailAddress |-> <<"e", "@", "t">>], [emailAddress |-> <<"a", "@", "c">>],
       [emailAddress |-> <<"b", "@", "c">>]>>,
     <<[emailAddress |-> <<>>], [emailAddress |-> <<"b", "@", "c">>],
       [emailAddress |-> <<"a", "@", "c">>]>>}

\* the documents that contain an email
EmailDocs ==
    {[e \in {<<>>, <<"e", "@", "t">>, <<"a", "@", "c">>, <<"b", "@", "c">>} |->
                       IF e = <<"a", "@", "c">> THEN a
                       ELSE IF e = <<"b", "@", "c">> THEN b ELSE <<>>] :
        a \in {<<>>, <<"e1">>}, b \in {<<>>, <<"e2", "e3">>}}

\* what json.loads makes of the text of the model: a failure, an array, or
\* an object with or without the keys "error", "needs_user_choice" (true)
\* and "doc_id" (None when the key is missing)
Answers ==
    {[json |-> "invalid"], [json |-> "array"]} \cup
    {[json |-> "object", error |-> e, needs_user_choice |-> n, doc_id |-> d] :
        e \in BOOLEAN, n \in BOOLEAN, d \in {"e1", "e2", "f1", "zz", None}}

LlmFindCalls(answers) ==
    {[activity |-> "llm_find_google_doc", parties |-> p, folder_docs_found |-> f,
      docs_with |-> d, answer |-> a] :
        p \in PartiesOfCalls, f \in {<<>>, <<"f1">>, <<"f1", "f2">>},
        d \in EmailDocs, a \in answers}

\* an invocation of llm_find_google_doc, from the parties on
InvokeLlmFindGoogleDoc ==
    /\ call.activity = "llm_find_google_doc"
    /\ returned = NotReturned
    /\ returned' = llm_find_google_doc(call.parties, call.folder_docs_found,
                                       call.docs_with, call.answer)
    /\ UNCHANGED <<call, appendVars, history, other, workflowVars, clientVars>>

(***************************************************************************)
(* The three activities above, each invoked once on inputs of its own.     *)
(***************************************************************************)
InitActivities ==
    InitWith({Closed(<<>>)},
             StructureCalls(OutputsUpTo(MaxPieces))
                \cup FindCalls(ListingsUpTo(MaxDocs))
                \cup LlmFindCalls(Answers))

NextActivities ==
    \/ InvokeStructureWithClaude
    \/ InvokeFindGoogleDoc
    \/ InvokeLlmFindGoogleDoc

SpecActivities == InitActivities /\ [][NextActivities]_vars

(***************************************************************************)
(* Successive invocations of append_to_google_doc with the snapshots that  *)
(* structure_with_claude returns for model outputs that do not keep to the *)
(* sentinel-to-sentinel format.                                            *)
(***************************************************************************)
\* model outputs "<snapshot> ---SUMMARY--- s ---SPLIT--- c" whose snapshot
\* part has text before the start sentinel, text after the end sentinel,
\* no sentinel, or runs from sentinel to sentinel
PayloadOutputs ==
    LET PayloadTail == <<"\n">> \o SUMMARY_MARK \o <<"s">> \o SPLIT_MARK \o <<"c">>
    IN
    {<<"p", "\n", "=", "S", "=", "\n", "q", "\n", "=", "E", "=">> \o PayloadTail,
     <<"=", "S", "=", "\n", "v", "\n", "=", "E", "=", "\n", "r">> \o PayloadTail,
     <<"u">> \o PayloadTail,
     <<"=", "S", "=", "\n", "w", "\n", "=", "E", "=">> \o PayloadTail}

\* result["snapshot"] of structure_with_claude for these outputs
Payloads == {structure_with_claude(o).value.snapshot : o \in PayloadOutputs}

InitPayload == InitOn(DocumentsUpTo(MaxBlocksRepeat))

NextPayload ==
    \/ \E snap \in Payloads, notes \in CallNotes, cd \in CallDates :
          AppendPrepare(snap, notes, cd[1], cd[2])
    \/ \E sem \in Semantics : AppendExecute(sem)
    \/ AppendReturn

SpecPayload == InitPayload /\ [][NextPayload]_vars

(***************************************************************************)
(* Vocabulary of the properties, stated on the document and text without   *)
(* the loops of the code.                                                  *)
(***************************************************************************)
Occurs(text, pat) == \E off \in 0..Len(text) : OccursAt(text, pat, off)

\* offset of the first occurrence of a pattern that occurs
FirstOffset(text, pat) ==
    CHOOSE off \in 0..Len(text) :
        /\ OccursAt(text, pat, off)
        /\ \A o \in 0..(off - 1) : ~OccursAt(text, pat, o)

Occurrences(text, pat) == Cardinality({off \in 0..Len(text) : OccursAt(text, pat, off)})

\* the days of the date tokens of a block that carry a parseable timestamp
TokenDays(block) ==
    {Strftime(block.elements[k].timestamp.t) :
        k \in {j \in 1..Len(block.elements) :
                  /\ block.elements[j].type = "dateElement"
                  /\ block.elements[j].timestamp.kind = "iso"}}

IsHeading2(block) == block.type = "paragraph" /\ block.namedStyleType = "HEADING_2"

IsAttendeesParagraph(block) ==
    /\ block.type = "paragraph"
    /\ \E k \in 1..Len(block.elements) :
          /\ block.elements[k].type = "textRun"
          /\ Occurs(Lower(block.elements[k].content), ATTENDEES_LOWER)

\* position of the first HEADING_2 with a date token on the given day, or 0
FirstMatchingHeading(content, day) ==
    LET M == {k \in 1..Len(content) : IsHeading2(content[k]) /\ day \in TokenDays(content[k])}
    IN  IF M = {} THEN 0 ELSE CHOOSE k \in M : \A j \in M : k <= j

\* position of the first Attendees paragraph after position h, or 0
FirstAttendeesAfter(content, h) ==
    LET A == {k \in (h + 1)..Len(content) : IsAttendeesParagraph(content[k])}
    IN  IF A = {} THEN 0 ELSE CHOOSE k \in A : \A j \in A : k <= j

\* the notes anchor of a document for a calendar day, 0 for NotFound
NotesAnchor(cells, day) ==
    LET content == BodyContent(cells)
        h == FirstMatchingHeading(content, day)
        a == IF h = 0 THEN 0 ELSE FirstAttendeesAfter(content, h)
    IN  IF a = 0 THEN 0 ELSE content[a].endIndex

CallDay == CallDateStr(call_date, tz)

\* the scan of the invocation ran to its end (no timestamp failed to parse)
Scanned == pc # "start" /\ err \notin {"DateParse", "ValueError"}

NotesText == <<"\n">> \o call_notes \o <<"\n", "\n">>

BothSentinels(text) ==
    Occurs(text, SNAPSHOT_MARKER_START) /\ Occurs(text, SNAPSHOT_MARKER_END)

\* the flattened text of a document: its text cells, in order
FlatText(cells) ==
    LET t == SelectSeq(cells, IsTextCell)
    IN  [k \in 1..Len(t) |-> IF IsNewline(t[k]) THEN "\n" ELSE t[k]]

\* a batch was built by the invocation
Built == pc \in {"built", "done"} \/ err = "HttpError"

(***************************************************************************)
(* C1: the notes anchor is found by one left-to-right scan: HEADING_2      *)
(* paragraphs whose date token is missing, empty or on another day are     *)
(* skipped, the first HEADING_2 with a date token on the call's day is     *)
(* used, and the anchor is the endIndex of the first paragraph after it,   *)
(* at any distance and across later headings and tables, that has a text   *)
(* run containing "Attendees:" (in any letter case); without one the       *)
(* result is NotFound.                                                     *)
(***************************************************************************)
C1_AnchorIsFirstAttendeesAfterFirstMatch ==
    Scanned => insert_index = NotesAnchor(doc_read, CallDay)

\* a heading on another day was skipped, and the Attendees paragraph is
\* not the paragraph next to the matched heading: a later heading lies between
C1_Witness ==
    /\ pc = "built"
    /\ LET content == BodyContent(doc_read)
           h == FirstMatchingHeading(content, CallDay)
           a == FirstAttendeesAfter(content, h)
       IN  /\ h > 1
           /\ \E k \in 1..(h - 1) : IsHeading2(content[k]) /\ TokenDays(content[k]) # {}
           /\ a > h + 1
           /\ \E k \in (h + 1)..(a - 1) : IsHeading2(content[k])
           /\ insert_index = content[a].endIndex

(***************************************************************************)
(* C2: in a document whose first dated HEADING_2 (day D1) has no Attendees *)
(* paragraph before the next dated HEADING_2 (day D2 # D1), whose block    *)
(* has one, the anchor for day D2 is the endIndex of that Attendees        *)
(* paragraph and the anchor for day D1 is NotFound.                        *)
(***************************************************************************)
DatedHeadings(content) ==
    {k \in 1..Len(content) : IsHeading2(content[k]) /\ TokenDays(content[k]) # {}}

C2_SecondBlockOnlyForItsOwnDay ==
    LET content == BodyContent(doc_read)
        H  == DatedHeadings(content)
        h1 == CHOOSE k \in H : \A j \in H : k <= j
        h2 == CHOOSE k \in H \ {h1} : \A j \in H \ {h1} : k <= j
        a  == FirstAttendeesAfter(content, h2)
    IN  (/\ Scanned
         /\ Cardinality(H) >= 2
         /\ TokenDays(content[h1]) \cap TokenDays(content[h2]) = {}
         /\ FirstAttendeesAfter(content, h1) > h2
         /\ \A k \in H : k > h2 => a < k)
        => /\ CallDay \in TokenDays(content[h2]) => insert_index = content[a].endIndex
           /\ CallDay \in TokenDays(content[h1]) =>
                 (insert_index = 0 /\ err = "AnchorNotFound")

(***************************************************************************)
(* C3: when the scan ends without a matching heading, or with one but no   *)
(* later Attendees paragraph, the invocation ends in the "No matching      *)
(* meeting notes block found" exception, no batchUpdate is issued and the  *)
(* document is as it was read.                                             *)
(***************************************************************************)
C3_NotFoundRaisesAndWritesNothing ==
    /\ (Scanned /\ NotesAnchor(doc_read, CallDay) = 0)
          => (pc = "failed" /\ err = "AnchorNotFound")
    /\ err = "AnchorNotFound"
          => (requests_body = <<>> /\ semantics = "none" /\ doc = doc_read)

\* a heading matched the call's day, but no Attendees paragraph follows it
C3_Witness ==
    /\ pc = "failed"
    /\ err = "AnchorNotFound"
    /\ FirstMatchingHeading(BodyContent(doc_read), CallDay) # 0
    /\ doc = doc_read

(***************************************************************************)
(* C4: when both sentinels occur in the flattened text, the batch is       *)
(* Insert(notes anchor, newline + call notes + two newlines), then         *)
(* DeleteRange(start + 1, end + 1), then Insert(start + 1, snapshot),      *)
(* start being the offset of the first start sentinel and end the offset   *)
(* just past the first end sentinel.                                       *)
(***************************************************************************)
C4_ReplaceBatchIsInsertDeleteInsert ==
    LET text  == FlatText(doc_read)
        start == FirstOffset(text, SNAPSHOT_MARKER_START)
        end   == FirstOffset(text, SNAPSHOT_MARKER_END) + Len(SNAPSHOT_MARKER_END)
    IN  (Built /\ BothSentinels(text)) =>
            requests_body =
                <<[req |-> "insertText", index |-> NotesAnchor(doc_read, CallDay),
                   endIndex |-> 0, text |-> NotesText],
                  [req |-> "deleteContentRange", index |-> start + 1,
                   endIndex |-> end + 1, text |-> <<>>],
                  [req |-> "insertText", index |-> start + 1, endIndex |-> 0,
                   text |-> snapshot]>>

\* a batch was built for a document whose snapshot section is not at offset 0
C4_Witness ==
    /\ pc = "built"
    /\ BothSentinels(FlatText(doc_read))
    /\ FirstOffset(FlatText(doc_read), SNAPSHOT_MARKER_START) > 0
    /\ Len(requests_body) = 3

(***************************************************************************)
(* C5: when the flattened text holds no sentinel pair, the batch has no    *)
(* DeleteRange: it is Insert(notes anchor, newline + call notes + two      *)
(* newlines), then Insert(1, snapshot + two newlines).                     *)
(***************************************************************************)
C5_AbsentSnapshotBatchIsInsertOnly ==
    (Built /\ ~BothSentinels(FlatText(doc_read))) =>
        /\ requests_body =
              <<[req |-> "insertText", index |-> NotesAnchor(doc_read, CallDay),
                 endIndex |-> 0, text |-> NotesText],
                [req |-> "insertText", index |-> 1, endIndex |-> 0,
                 text |-> snapshot \o <<"\n", "\n">>]>>
        /\ \A k \in 1..Len(requests_body) : requests_body[k].req # "deleteContentRange"

\* a batch was built for a document without any sentinel
C5_Witness ==
    /\ pc = "built"
    /\ ~Occurs(FlatText(doc_read), SNAPSHOT_MARKER_START)
    /\ ~Occurs(FlatText(doc_read), SNAPSHOT_MARKER_END)
    /\ Len(requests_body) = 2

(***************************************************************************)
(* C6: a flattened text with the start sentinel but without the end        *)
(* sentinel makes the write fail (MalformedSnapshot) and apply nothing.    *)
(***************************************************************************)
C6_StartWithoutEndFails ==
    LET text == FlatText(doc_read)
    IN  (/\ pc \in {"done", "failed"}
         /\ Occurs(text, SNAPSHOT_MARKER_START)
         /\ ~Occurs(text, SNAPSHOT_MARKER_END))
        => (pc = "failed" /\ err # "none" /\ doc = doc_read)

\* index of the cell that holds the character at offset off of the
\* flattened text, counted from cell k on
RECURSIVE CellOfOffset(_, _, _)
CellOfOffset(cells, off, k) ==
    IF k > Len(cells) THEN k
    ELSE IF IsTextCell(cells[k])
    THEN (IF off = 0 THEN k ELSE CellOfOffset(cells, off - 1, k + 1))
    ELSE CellOfOffset(cells, off, k + 1)

\* the first start sentinel comes before the first end sentinel
HasSection(text) ==
    /\ BothSentinels(text)
    /\ FirstOffset(text, SNAPSHOT_MARKER_START) < FirstOffset(text, SNAPSHOT_MARKER_END)

\* the document holds one snapshot section and no other sentinel, and the
\* cells of the section are all text
OneSection(cells) ==
    LET text == FlatText(cells)
        s == FirstOffset(text, SNAPSHOT_MARKER_START)
        e == FirstOffset(text, SNAPSHOT_MARKER_END) + Len(SNAPSHOT_MARKER_END)
    IN  /\ HasSection(text)
        /\ Occurrences(text, SNAPSHOT_MARKER_START) = 1
        /\ Occurrences(text, SNAPSHOT_MARKER_END) = 1
        /\ CellOfOffset(cells, e - 1, 1) - CellOfOffset(cells, s, 1) = e - 1 - s

\* index of the first cell of the snapshot section
SectionStart(cells) ==
    CellOfOffset(cells, FirstOffset(FlatText(cells), SNAPSHOT_MARKER_START), 1)

(***************************************************************************)
(* C7: for any old snapshot section in the document and any new snapshot   *)
(* text running from the start sentinel to the end sentinel, longer or     *)
(* shorter than the old one, read_google_doc on the document left by the   *)
(* applied batch returns exactly the new snapshot text.                    *)
(***************************************************************************)
C7_ReadAfterReplaceReturnsNewSnapshot ==
    (/\ pc = "done"
     /\ HasSection(FlatText(doc_read))
     /\ doc_seen = doc)
    => existing_snapshot = snapshot

\* an old section was replaced by a longer text and read back
C7_Witness ==
    /\ pc = "done"
    /\ doc_seen = doc
    /\ existing_snapshot = snapshot
    /\ OneSection(doc_read)
    /\ Len(snapshot) > Len(ExtractSnapshot(FlatText(doc_read)))

(***************************************************************************)
(* C8: with every index of the batch resolved against the original         *)
(* document, the resulting document has the call notes immediately after   *)
(* the matched Attendees paragraph, the snapshot section exactly once, and *)
(* no character of the prior snapshot section.  Stated for the documents   *)
(* that hold no sentinel or exactly one well-formed snapshot section.      *)
(***************************************************************************)
\* the cells after the first Attendees paragraph of the call's block are
\* the inserted notes text
NotesFollowAttendees(cells, day) ==
    LET a == NotesAnchor(cells, day)
    IN  /\ a # 0
        /\ a + Len(NotesText) - 1 <= Len(cells)
        /\ FlatText(SubSeq(cells, a, a + Len(NotesText) - 1)) = NotesText

C8_OriginalOffsetsGiveCleanResult ==
    (/\ pc = "done"
     /\ semantics = "original"
     /\ OneSection(doc_read) \/ ~(\E k \in 1..Len(doc_read) : doc_read[k] \in {"S", "E"}))
    => /\ NotesFollowAttendees(doc, CallDay)
       /\ Occurrences(FlatText(doc), SNAPSHOT_MARKER_START) = 1
       /\ Occurrences(FlatText(doc), SNAPSHOT_MARKER_END) = 1
       /\ ~Occurs(FlatText(doc), <<"o">>)

(***************************************************************************)
(* C9: when the batch is applied sequentially, no request uses an index    *)
(* that an earlier request of the batch has shifted: the notes insertion,  *)
(* first in the batch, lies after the deleted range and after the          *)
(* snapshot insertion point, whether the snapshot is before or after the   *)
(* notes anchor.  Stated for the documents that hold no sentinel or        *)
(* exactly one well-formed snapshot section.                               *)
(***************************************************************************)
C9_NotesInsertShiftsNoLaterIndex ==
    (/\ pc = "done"
     /\ semantics = "sequential"
     /\ OneSection(doc_read) \/ ~(\E k \in 1..Len(doc_read) : doc_read[k] \in {"S", "E"}))
    => \A k \in 2..Len(requests_body) :
          /\ requests_body[k].index < requests_body[1].index
          /\ requests_body[k].req = "deleteContentRange"
                => requests_body[k].endIndex <= requests_body[1].index

(***************************************************************************)
(* C10: read_google_doc returns the part of the flattened text from the    *)
(* first start sentinel through the first end sentinel, both included,     *)
(* when both sentinels occur (the first pair when there are several), and  *)
(* the empty string when one is missing.                                   *)
(***************************************************************************)
C10_ReadReturnsFirstSentinelPair ==
    LET text  == FlatText(doc_seen)
        r     == existing_snapshot
        start == FirstOffset(text, SNAPSHOT_MARKER_START)
        end   == FirstOffset(text, SNAPSHOT_MARKER_END) + Len(SNAPSHOT_MARKER_END)
    IN  existing_snapshot # NotRead =>
            IF BothSentinels(text)
            THEN /\ Len(r) = end - start
                 /\ \A k \in 1..Len(r) : r[k] = text[start + k]
                 /\ OccursAt(r, SNAPSHOT_MARKER_START, 0)
                 /\ OccursAt(r, SNAPSHOT_MARKER_END, Len(r) - Len(SNAPSHOT_MARKER_END))
            ELSE r = <<>>

(***************************************************************************)
(* C13: an all-digit epoch string and an ISO-8601 string that denote       *)
(* instants of the same UTC calendar day get the same day key, whatever    *)
(* the UTC offset of the executing process.  The epoch string is the call  *)
(* date of the invocation, the ISO strings are the timestamps of the date  *)
(* chips of the document it read.                                          *)
(***************************************************************************)
\* the UTC calendar day of the instant a timestamp string denotes
UtcDay(s) == IF s.kind = "epoch" THEN s.t \div 24 ELSE (s.t - s.off) \div 24

C13_SameUtcDaySameKey ==
    (pc # "start" /\ IsDigit(call_date))
    => \A k \in 1..Len(doc_read) :
          (/\ IsDateCell(doc_read[k])
           /\ ChipTimestamp(doc_read[k]).kind = "iso"
           /\ UtcDay(ChipTimestamp(doc_read[k])) = UtcDay(call_date))
          => CallDateStr(ChipTimestamp(doc_read[k]), tz) = CallDay

BlockCells(cells, block) == SubSeq(cells, block.startIndex, block.endIndex - 1)

RECURSIVE BlockwiseText(_, _, _)
\* the texts of the blocks from position k on, each taken alone
BlockwiseText(cells, content, k) ==
    IF k > Len(content) THEN <<>>
    ELSE FlatText(BlockCells(cells, content[k]))
         \o BlockwiseText(cells, content, k + 1)

C15_FlattenIsConcatenationOfBlocks ==
    pc # "start"
    => /\ full_text = BlockwiseText(doc_read, BodyContent(doc_read), 1)
       /\ full_text = FlatText(doc_read)

\* a flattened document of three blocks with a table and a date token
\* between paragraphs that have text
C15_Witness ==
    /\ pc # "start"
    /\ Len(BodyContent(doc_read)) = 3
    /\ BodyContent(doc_read)[2].type = "table"
    /\ \E k \in 1..Len(doc_read) : IsDateCell(doc_read[k])
    /\ Len(FlatText(BlockCells(doc_read, BodyContent(doc_read)[1]))) > 1
    /\ Len(FlatText(BlockCells(doc_read, BodyContent(doc_read)[3]))) > 1

(***************************************************************************)
(* C11: starting from a document with no snapshot section, after any       *)
(* number n >= 1 of successful writes whose snapshot payloads run from the *)
(* start sentinel to the end sentinel, the document holds exactly one      *)
(* sentinel pair and its content is the payload of the latest write: the   *)
(* first write creates the section, every later write replaces it at the   *)
(* same starting position, and none appends a second section.              *)
(***************************************************************************)
\* the document the first invocation read
FirstDocument == IF history = <<>> THEN doc_read ELSE history[1].before

NoSentinel(cells) ==
    /\ ~Occurs(FlatText(cells), SNAPSHOT_MARKER_START)
    /\ ~Occurs(FlatText(cells), SNAPSHOT_MARKER_END)

C11_OneSectionHoldingLatestPayload ==
    (pc = "done" /\ NoSentinel(FirstDocument))
    => /\ Occurrences(FlatText(doc), SNAPSHOT_MARKER_START) = 1
       /\ Occurrences(FlatText(doc), SNAPSHOT_MARKER_END) = 1
       /\ Slice(FlatText(doc), FirstOffset(FlatText(doc), SNAPSHOT_MARKER_START),
                FirstOffset(FlatText(doc), SNAPSHOT_MARKER_END)
                    + Len(SNAPSHOT_MARKER_END)) = snapshot
       /\ history # <<>> => SectionStart(doc) = SectionStart(doc_read)

\* a second write has replaced the section the first write created, by a
\* payload of another length
C11_Witness ==
    /\ pc = "done"
    /\ NoSentinel(FirstDocument)
    /\ history # <<>>
    /\ Len(snapshot) # Len(history[1].snapshot)
    /\ OneSection(doc)

(***************************************************************************)
(* C12: the write is idempotent: performing append_to_google_doc twice in  *)
(* succession with the same snapshot, call notes, document and call date   *)
(* leaves the same document as performing it once.                         *)
(***************************************************************************)
C12_SecondIdenticalWriteChangesNothing ==
    (/\ pc = "done"
     /\ history # <<>>
     /\ LET once == history[Len(history)]
        IN  /\ snapshot = once.snapshot
            /\ call_notes = once.call_notes
            /\ call_date = once.call_date
            /\ tz = once.tz
            /\ doc_read = once.after)
    => doc = history[Len(history)].after

(***************************************************************************)
(* C16: when the document has no meeting block for the call's day (the     *)
(* write ends in AnchorNotFound), the workflow suspends until the          *)
(* confirm_block_created signal arrives and only then writes and           *)
(* completes: no run completes on such a document without the signal.      *)
(***************************************************************************)
C16_NoBlockNoCompletionBeforeConfirm ==
    (/\ wf_pc = "completed"
     /\ CallDateStr(transcript.call_date, tz) # ParseError
     /\ NotesAnchor(doc, CallDateStr(transcript.call_date, tz)) = 0)
    => block_confirmed

(***************************************************************************)
(* C17: when document discovery returns the empty string, run does not     *)
(* pass the discovery step until a provide_doc_url signal has delivered a  *)
(* non-empty URL, and then continues with exactly that URL; the wait is    *)
(* left in no other way, an empty URL does not release it, and a URL       *)
(* delivered before discovery finished is used.                            *)
(***************************************************************************)
\* llm_find_google_doc has returned the empty string
NoDocFound ==
    /\ executed # <<>>
    /\ executed[Len(executed)].activity = "llm_find_google_doc"
    /\ executed[Len(executed)].ok
    /\ executed[Len(executed)].result = ""

C17_DiscoveryWaitsForNonEmptyUrl ==
    [][/\ (wf_pc # "completed" /\ wf_pc' = "completed" /\ NoDocFound')
          => /\ doc_url # ""
             /\ found_url' = doc_url
             /\ delivered # <<>>
             /\ delivered[Len(delivered)].url = doc_url
       /\ (wf_pc = "wait_doc_url" /\ wf_pc' # "wait_doc_url")
          => /\ doc_url # ""
             /\ wf_pc' = "completed"
       /\ (wf_pc = "llm_find_google_doc" /\ NoDocFound' /\ doc_url # "")
          => /\ wf_pc' = "completed"
             /\ found_url' = doc_url]_vars

\* run waited, an empty URL was signalled, then a URL, and run completed
\* with that URL
C17_Witness ==
    /\ wf_pc = "completed"
    /\ NoDocFound
    /\ Len(delivered) = 2
    /\ delivered[1].url = ""
    /\ delivered[1].at = Len(executed)
    /\ delivered[2].url # ""
    /\ found_url = delivered[2].url

(***************************************************************************)
(* C18: every run that completes successfully has executed, in this order, *)
(* the transcript fetch, the document lookup, the snapshot read, the       *)
(* structuring, the document write and the Slack post.                     *)
(***************************************************************************)
\* the activities that completed, in order
Completed == SelectSeq(executed, LAMBDA e : e.ok)

C18_SuccessAfterAllSixSteps ==
    wf_pc = "completed"
    => /\ Len(Completed) = 6
       /\ Completed[1].activity = "fetch_gong_transcript"
       /\ Completed[2].activity = "llm_find_google_doc"
       /\ Completed[3].activity = "read_google_doc"
       /\ Completed[4].activity = "structure_with_claude"
       /\ Completed[5].activity = "append_to_google_doc"
       /\ Completed[6].activity = "post_to_slack"

(***************************************************************************)
(* C19: each activity is attempted at most 3 times; a failed attempt is    *)
(* followed by an attempt of the same activity, an activity that completed *)
(* is never executed again, and after the third failed attempt of an       *)
(* activity the workflow fails.                                            *)
(***************************************************************************)
Attempts(name) ==
    Cardinality({k \in 1..Len(executed) : executed[k].activity = name})

FailedAttempts(name) ==
    Cardinality({k \in 1..Len(executed) :
                    executed[k].activity = name /\ ~executed[k].ok})

C19_AtMostThreeAttemptsOfOneActivity ==
    /\ \A k \in 1..Len(executed) :
          /\ Attempts(executed[k].activity) <= 3
          /\ FailedAttempts(executed[k].activity) = 3 => wf_pc = "failed"
          /\ (k < Len(executed) /\ ~executed[k].ok)
                => executed[k + 1].activity = executed[k].activity
          /\ executed[k].ok
                => \A j \in (k + 1)..Len(executed) :
                      executed[j].activity # executed[k].activity
    /\ wf_pc = "failed"
          => FailedAttempts(executed[Len(executed)].activity) = 3

\* the fetch failed once and completed on its second attempt, then the
\* lookup failed three times and the workflow failed
C19_Witness ==
    /\ wf_pc = "failed"
    /\ Len(executed) = 5
    /\ ~executed[1].ok
    /\ executed[2].ok
    /\ executed[5].activity = "llm_find_google_doc"

(***************************************************************************)
(* C20: two invocations on one document take no lock and check no          *)
(* version: a batch computed from a document that has changed since it was *)
(* read is applied all the same, to the document as it now is, and is      *)
(* refused only when the service rejects its indexes.  In the interleaving *)
(* where both read and then both apply, the second call's notes end up     *)
(* away from its Attendees paragraph or the snapshot section is damaged or *)
(* duplicated (the witness).                                               *)
(***************************************************************************)
\* the second invocation has made its batchUpdate call
OtherApplied == other # Idle /\ other.semantics # "none"

C20_StaleBatchIsAppliedUnchecked ==
    OtherApplied
    => LET result == BatchUpdate(other.applied_on, other.requests_body,
                                 other.semantics)
       IN  /\ other.requests_body =
                 BuildRequests(FlatText(other.doc_read), other.insert_index,
                               other.snapshot, other.call_notes)
           /\ IF result = Rejected
              THEN other.pc = "failed" /\ other.err = "HttpError"
              ELSE other.pc = "done"

\* both invocations read the same document, which held no snapshot section
\* and a meeting block for each call; the first applied its batch, then the
\* second: the document holds two snapshot sections and the second call's
\* notes do not follow its Attendees paragraph
C20_Witness ==
    /\ pc = "done"
    /\ OtherApplied
    /\ other.pc = "done"
    /\ other.doc_read = doc_read
    /\ other.applied_on # doc_read
    /\ doc = BatchUpdate(other.applied_on, other.requests_body, other.semantics)
    /\ NoSentinel(doc_read)
    /\ Occurrences(FlatText(doc), SNAPSHOT_MARKER_START) = 2
    /\ LET a == NotesAnchor(doc, CallDateStr(other.call_date, other.tz))
       IN  FlatText(SubSeq(doc, a, a + 3)) # <<"\n", "d", "\n", "\n">>

(***************************************************************************)
(* C23: for every document, also when a table or a date token precedes the *)
(* snapshot section, the range DeleteRange(start + 1, end + 1) computed    *)
(* from the offsets of the flattened text covers exactly the cells of the  *)
(* old snapshot section in the index space of the document, and            *)
(* Insert(start + 1) lands on the first character of the old section.      *)
(* Stated for the documents that hold exactly one snapshot section.        *)
(***************************************************************************)
C23_DeleteRangeCoversOldSection ==
    LET s == SectionStart(doc_read)
        n == Len(ExtractSnapshot(FlatText(doc_read)))
    IN  (Built /\ OneSection(doc_read))
        => /\ requests_body[2] = DeleteContentRange(s, s + n)
           /\ requests_body[3].req = "insertText"
           /\ requests_body[3].index = s

(***************************************************************************)
(* C24: whenever both sentinels occur in the flattened text, in either     *)
(* order, every DeleteRange of the batch has startIndex < endIndex, and    *)
(* every non-empty string read_google_doc returns begins with the start    *)
(* sentinel and ends with the end sentinel; also when the first end        *)
(* sentinel lies before the first start sentinel.                          *)
(***************************************************************************)
C24_DeleteRangeNotEmptyAndReadIsSection ==
    /\ (Built /\ BothSentinels(FlatText(doc_read)))
          => \A k \in 1..Len(requests_body) :
                requests_body[k].req = "deleteContentRange"
                   => requests_body[k].index < requests_body[k].endIndex
    /\ (existing_snapshot # NotRead /\ existing_snapshot # <<>>)
          => /\ OccursAt(existing_snapshot, SNAPSHOT_MARKER_START, 0)
             /\ OccursAt(existing_snapshot, SNAPSHOT_MARKER_END,
                         Len(existing_snapshot) - Len(SNAPSHOT_MARKER_END))

(***************************************************************************)
(* C25: if the scan reaches, before any match, a date token of a HEADING_2 *)
(* paragraph whose non-empty timestamp does not parse, the invocation      *)
(* fails there with an error that is not the "No matching meeting notes    *)
(* block found" exception and applies no batch, even when a later          *)
(* HEADING_2 matches the call date and has an Attendees paragraph.         *)
(***************************************************************************)
\* the element of a paragraph is a date token of the given day
IsDateOn(el, day) ==
    /\ el.type = "dateElement"
    /\ el.timestamp.kind = "iso"
    /\ Strftime(el.timestamp.t) = day

\* a HEADING_2 with no heading of the day before it holds a date token
\* that does not parse, with no date token of the day before it
UnparseableBeforeMatch(content, day) ==
    \E k \in 1..Len(content) :
        /\ IsHeading2(content[k])
        /\ \A j \in 1..(k - 1) : IsHeading2(content[j]) => day \notin TokenDays(content[j])
        /\ \E e \in 1..Len(content[k].elements) :
              /\ content[k].elements[e].type = "dateElement"
              /\ content[k].elements[e].timestamp.kind = "bad"
              /\ \A d \in 1..(e - 1) : ~IsDateOn(content[k].elements[d], day)

C25_UnparseableTokenFailsTheWrite ==
    (/\ pc # "start"
     /\ CallDay # ParseError
     /\ UnparseableBeforeMatch(BodyContent(doc_read), CallDay))
    => /\ pc = "failed"
       /\ err = "ValueError"
       /\ requests_body = <<>>
       /\ semantics = "none"
       /\ doc = doc_read

\* the invocation failed at the unparseable token although a later heading
\* is of the call's day and an Attendees paragraph follows it
C25_Witness ==
    /\ pc = "failed"
    /\ err = "ValueError"
    /\ UnparseableBeforeMatch(BodyContent(doc_read), CallDay)
    /\ NotesAnchor(doc_read, CallDay) # 0
    /\ doc = doc_read

(***************************************************************************)
(* C26: when llm_find_google_doc returns a non-empty URL, run goes on with *)
(* that URL and never waits; a provide_doc_url signal, whenever it is      *)
(* received (it only sets doc_url), does not change the URL run uses and   *)
(* reports.                                                                *)
(***************************************************************************)
\* the attempts of llm_find_google_doc that returned a URL
Lookups ==
    {k \in 1..Len(executed) :
        /\ executed[k].activity = "llm_find_google_doc"
        /\ executed[k].ok
        /\ executed[k].result # ""}

C26_FoundUrlIsUsedWhateverIsSignalled ==
    /\ \A k \in Lookups : wf_pc = "completed" /\ found_url = executed[k].result
    /\ wf_pc = "wait_doc_url" => Lookups = {}

\* another URL was signalled before the lookup returned its own, and run
\* completed with the URL of the lookup
C26_Witness ==
    /\ wf_pc = "completed"
    /\ Lookups # {}
    /\ delivered # <<>>
    /\ delivered[Len(delivered)].url # ""
    /\ doc_url = delivered[Len(delivered)].url
    /\ found_url # doc_url

(***************************************************************************)
(* C27: every activity that run schedules is one of the activities the     *)
(* worker of the "gong-notes-queue" task queue registers, so that the      *)
(* worker can execute every scheduled activity.                            *)
(***************************************************************************)
C27_ScheduledActivitiesAreRegistered ==
    \A k \in 1..Len(executed) : executed[k].activity \in activities

(***************************************************************************)
(* C22: the trigger client sends provide_doc_url at most once per run,     *)
(* only after its wait for the result of the run has timed out and only    *)
(* when the URL entered is not empty; when it is empty no signal is sent   *)
(* and a run that waits for a document URL stays blocked.                  *)
(***************************************************************************)
C22_TriggerSignalsOnceAfterTimeout ==
    /\ [](Len(sent) <= 1)
    /\ [][/\ sent' # sent
             => /\ trigger_pc = "input"
                /\ Len(sent') = Len(sent) + 1
                /\ sent'[Len(sent')] # ""
                /\ Running => doc_url' = sent'[Len(sent')]
          /\ (trigger_pc # "input" /\ trigger_pc' = "input")
             => (trigger_pc = "wait_for" /\ sent = <<>>)
          /\ trigger_pc' = "no_url"
             => (sent' = <<>> /\ (trigger_pc = "input" => UNCHANGED workflowVars))
          /\ (trigger_pc = "no_url" /\ wf_pc = "wait_doc_url")
             => wf_pc' = "wait_doc_url"]_vars

\* the wait timed out while run waited for a document URL, a URL was
\* entered with blanks around it and signalled, and run completed with it
C22_Witness ==
    /\ trigger_pc = "done"
    /\ sent = <<"https://docs.google.com/document/d/two/edit">>
    /\ NoDocFound
    /\ wf_pc = "completed"
    /\ found_url = sent[1]

(***************************************************************************)
(* C21: find_google_doc tries its folder-name patterns in the order full   *)
(* name, first 8, first 6, first 4 lowercase characters and stops at the   *)
(* first pattern that matches exactly one folder; it returns a document    *)
(* URL only if some pattern matched exactly one folder and that folder     *)
(* holds a document whose name contains "notes" or "use case" (the first   *)
(* such in listing order is returned) or exactly one document (which is    *)
(* returned); in every other case (no folder, only matches of several      *)
(* folders, empty folder, several documents without priority) it returns   *)
(* the empty string.                                                       *)
(***************************************************************************)
\* the k-th pattern: the full name, then the first 8, 6 and 4 characters of
\* the lowercased name
PatternAt(account_name, k) ==
    IF k = 1 THEN account_name
    ELSE SubSeq(Lower(account_name), 1, Min(<<8, 6, 4>>[k - 1], Len(account_name)))

\* the patterns that match exactly one folder
SingleMatches(c) ==
    {k \in 1..4 : Len(c.folders_by[PatternAt(c.account_name, k)]) = 1}

\* the folder of the first pattern that matches exactly one folder
FolderOf(c) ==
    LET k == CHOOSE i \in SingleMatches(c) : \A j \in SingleMatches(c) : i <= j
    IN  c.folders_by[PatternAt(c.account_name, k)][1]

HasPriorityName(d) ==
    Occurs(Lower(d.name), NOTES) \/ Occurs(Lower(d.name), USE_CASE)

\* the URL expected for a listing, <<>> for the empty string
ExpectedUrl(docs) ==
    LET P == {j \in 1..Len(docs) : HasPriorityName(docs[j])}
    IN  IF P # {} THEN DocUrl(docs[CHOOSE i \in P : \A j \in P : i <= j].id)
        ELSE IF Len(docs) = 1 THEN DocUrl(docs[1].id)
        ELSE <<>>

C21_FirstSingleFolderThenPriorityDoc ==
    (call.activity = "find_google_doc" /\ returned # NotReturned)
    => /\ returned.status = "returned"
       /\ returned.value = IF SingleMatches(call) = {} THEN <<>>
                           ELSE ExpectedUrl(call.docs_by[FolderOf(call)])

\* the full name matched two folders, a later pattern matched one, another
\* pattern after it matched another folder, and the document returned is
\* the second of the listing, the first having no priority name
C21_Witness ==
    /\ call.activity = "find_google_doc"
    /\ returned # NotReturned
    /\ Len(call.folders_by[PatternAt(call.account_name, 1)]) = 2
    /\ Cardinality({call.folders_by[PatternAt(call.account_name, k)] :
                       k \in SingleMatches(call)}) = 2
    /\ LET docs == call.docs_by[FolderOf(call)]
       IN  /\ Len(docs) = 2
           /\ ~HasPriorityName(docs[1])
           /\ returned.value = DocUrl(docs[2].id)

(***************************************************************************)
(* C28: the parsing of the model output by structure_with_claude is total: *)
(* for every output, also one that contains "---SUMMARY---" and            *)
(* "---SPLIT---" with "---SPLIT---" first, it returns a record with the    *)
(* fields snapshot, summary and call_notes and never fails; when the two   *)
(* markers occur in order, snapshot is the trimmed text before             *)
(* "---SUMMARY---", summary the trimmed text between the markers and       *)
(* call_notes the trimmed text after "---SPLIT---".  The second part is    *)
(* stated for outputs that hold each marker once.                          *)
(***************************************************************************)
\* each marker occurs once, "---SUMMARY---" wholly before "---SPLIT---"
MarkersInOrder(output) ==
    /\ Occurrences(output, SUMMARY_MARK) = 1
    /\ Occurrences(output, SPLIT_MARK) = 1
    /\ FirstOffset(output, SUMMARY_MARK) + Len(SUMMARY_MARK)
          <= FirstOffset(output, SPLIT_MARK)

C28_OutputParsingIsTotal ==
    (call.activity = "structure_with_claude" /\ returned # NotReturned)
    => /\ returned.status = "returned"
       /\ DOMAIN returned.value = {"snapshot", "summary", "call_notes"}
       /\ MarkersInOrder(call.output)
          => LET m == FirstOffset(call.output, SUMMARY_MARK)
                 p == FirstOffset(call.output, SPLIT_MARK)
             IN  /\ returned.value.snapshot = Strip(SubSeq(call.output, 1, m))
                 /\ returned.value.summary =
                       Strip(SubSeq(call.output, m + Len(SUMMARY_MARK) + 1, p))
                 /\ returned.value.call_notes =
                       Strip(SubSeq(call.output, p + Len(SPLIT_MARK) + 1,
                                    Len(call.output)))

(***************************************************************************)
(* C30: every non-empty URL llm_find_google_doc returns names the id of    *)
(* one of the candidate documents of the Drive search (the documents that  *)
(* contain a participant's email when there are any, the documents of the  *)
(* company's folders otherwise); when the answer of the model does not     *)
(* parse, is an error, asks for a choice of the user or carries no doc_id, *)
(* the empty string is returned.                                           *)
(***************************************************************************)
\* the ids of the candidate documents
Candidates(c) ==
    LET M == {k \in 1..Len(c.parties) :
                 /\ c.parties[k].emailAddress # <<>>
                 /\ ~EndsWith(c.parties[k].emailAddress, TEMPORAL_IO)
                 /\ c.docs_with[c.parties[k].emailAddress] # <<>>}
        docs == IF M = {} THEN c.folder_docs_found
                ELSE c.docs_with[c.parties[CHOOSE i \in M : \A j \in M : i <= j]
                                    .emailAddress]
    IN  {docs[k] : k \in 1..Len(docs)}

\* the answer names no document
NoDocAnswer(answer) ==
    \/ answer.json = "invalid"
    \/ /\ answer.json = "object"
       /\ answer.error \/ answer.needs_user_choice \/ answer.doc_id = None

C30_UrlNamesACandidate ==
    (/\ call.activity = "llm_find_google_doc"
     /\ returned # NotReturned
     /\ returned.status = "returned")
    => /\ returned.value # <<>>
          => \E id \in Candidates(call) : returned.value = DocUrl(id)
       /\ NoDocAnswer(call.answer) => returned.value = <<>>

(***************************************************************************)
(* C29: for any snapshot payload structure_with_claude can return (with    *)
(* text before the start sentinel or after the end sentinel, or without    *)
(* any sentinel), after any sequence of successful writes the document     *)
(* holds no leftover text of an earlier payload, and a document that had a *)
(* snapshot section before a write still has exactly one after it.         *)
(***************************************************************************)
\* the letters of the payloads; no document and no call notes hold one
PayloadLetters == {"p", "q", "r", "u", "v", "w"}

\* a letter of an earlier payload, not of the latest, is in the document
Leftover(cells, earlier, latest) ==
    \E c \in PayloadLetters :
        /\ Occurs(earlier, <<c>>)
        /\ ~Occurs(latest, <<c>>)
        /\ Occurs(FlatText(cells), <<c>>)

C29_NoLeftoverAndOneSection ==
    pc = "done"
    => /\ \A k \in 1..Len(history) : ~Leftover(doc, history[k].snapshot, snapshot)
       /\ OneSection(doc_read)
          => /\ Occurrences(FlatText(doc), SNAPSHOT_MARKER_START) = 1
             /\ Occurrences(FlatText(doc), SNAPSHOT_MARKER_END) = 1

====
